---- MODULE Spec2Model ----
(***************************************************************************)
(* A model of the flat half-edge surface of flatsurf / polygon:            *)
(*   - the flat triangulation (permutations + vectors) with its            *)
(*     constructor and flip (src/src/libflatsurf/flat_triangulation.cc),   *)
(*   - the collapsed flat triangulation with make, flip and collapse       *)
(*     (src/libflatsurf/src/flat_triangulation_collapsed.cc).              *)
(* Half-edges are non-zero integers, -e is the opposite half-edge.         *)
(* Vectors are pairs <<x, y>> over the coordinate ring of the integers.    *)
(***************************************************************************)
EXTENDS Integers, Sequences, FiniteSets, TLC

VARIABLES
  status,     \* flat: "new" | "ok" | "InvalidArgument", outcome of the constructor;
              \* collapsed: "making" | "collapsed", or "AssertionFailed" |
              \* "NotATriangle" when an assertion of the code has failed
  input,      \* the vectors handed to the constructor, indexed by positive half-edge
  faces,      \* facePermutation: half-edge -> nextInFace
  vertices,   \* vertexPermutation: half-edge -> nextAtVertex
  vectors,    \* the vectors store: half-edge -> vector
  initial,    \* the surface as it was when the constructor returned
  pre,        \* the surface just before the last flip, and the flipped half-edge
  run,        \* the current run of consecutive flips of one half-edge
  nflips,     \* the number of flips made so far
  hidden,     \* collapsedHalfEdges: half-edge -> list of hidden connections
  original,   \* the uncollapsed flat triangulation a collapsed surface refers to
  vertical,   \* the vertical direction of a collapsed surface
  last,       \* the last flip or collapse of a collapsed surface and its gadget
  query,      \* the implementation of a SaddleConnections query, the receiver
  answer      \* the last call on the query and the query it returned

vars == <<status, input, faces, vertices, vectors, initial, pre, run, nflips,
          hidden, original, vertical, last, query, answer>>

----------------------------------------------------------------------------
(* Bounds of the model *)

\* Flips are explored while every coordinate stays within -MaxCoord..MaxCoord.
MaxCoord == 2

\* Number of flips explored from a constructed surface.
MaxFlips == 4

\* Length up to which a run of consecutive flips of one half-edge is counted.
MaxRun == 4

\* Largest search radius handed to bound(); a Bound is the square of a length.
MaxBound == 2

\* Number of calls chained on a query.
MaxNarrow == 2

\* The largest coordinate of a vector handed to inSector and CompareSlope.
MaxVector == 2

----------------------------------------------------------------------------
(* Vector(T) *)

Zero == <<0, 0>>

Add(u, v) == <<u[1] + v[1], u[2] + v[2]>>

Neg(u) == <<0 - u[1], 0 - u[2]>>

\* The sign of Cross(u, v) is u.ccw(v).
Cross(u, v) == u[1] * v[2] - u[2] * v[1]

Dot(u, v) == u[1] * v[1] + u[2] * v[2]

Abs(x) == IF x < 0 THEN 0 - x ELSE x

InBox(v) == Abs(v[1]) <= MaxCoord /\ Abs(v[2]) <= MaxCoord

----------------------------------------------------------------------------
(* Combinatorial triangulation *)

HalfEdgesOf(n) == (1..n) \cup {0 - e : e \in 1..n}

\* The cycle of the permutation f through e, as a set.
RECURSIVE Orbit(_, _, _)
Orbit(f, e, seen) ==
  IF e \in seen THEN seen ELSE Orbit(f, f[e], seen \cup {e})

FaceOf(f, e) == Orbit(f, e, {})

IsPermutation(f) ==
  /\ \A e \in DOMAIN f : f[e] \in DOMAIN f
  /\ \A x, y \in DOMAIN f : f[x] = f[y] => x = y

previousInFace(f, e) == CHOOSE x \in DOMAIN f : f[x] = e

\* The face permutation with the given cycles (a set of triples).
FacesFromCycles(n, cycles) ==
  [e \in HalfEdgesOf(n) |->
     LET t == CHOOSE t \in cycles : e \in {t[1], t[2], t[3]}
     IN  IF e = t[1] THEN t[2] ELSE IF e = t[2] THEN t[3] ELSE t[1]]

\* nextAtVertex(e) = -previousInFace(e): the half-edge counter-clockwise
\* of e at the source of e is the reverse of the one before e in its face.
VerticesFromFaces(f) == [e \in DOMAIN f |-> 0 - previousInFace(f, e)]

\* FlatTriangulationCombinatorial::flip(e): the faces (a b e)(c d -e) become
\* (a -e d)(c e b); nextAtVertex changes at the same six half-edges (each end
\* of e loses e, the two opposite corners gain it).
FlipFaces(f, e) ==
  LET a == f[e]
      b == f[a]
      c == f[0 - e]
      d == f[c]
  IN  [f EXCEPT ![a] = 0 - e, ![0 - e] = d, ![d] = a,
                ![c] = e, ![e] = b, ![b] = c]

FlipVertices(f, s, e) ==
  LET a == f[e]
      b == f[a]
      c == f[0 - e]
      d == f[c]
  IN  [s EXCEPT ![a] = 0 - d, ![0 - e] = 0 - a, ![d] = e,
                ![c] = 0 - b, ![e] = 0 - c, ![b] = 0 - e]

\* handleFlip reading the previous half-edge of the wrong face.
handleFlipSwapped(f, flip) ==
  [a |-> previousInFace(f, flip),
   b |-> f[flip],
   c |-> previousInFace(f, 0 - flip),
   d |-> f[0 - flip]]

\* handleFlip: after the flip the faces are (a -flip d)(c flip b).
handleFlip(f, flip) ==
  [a |-> previousInFace(f, 0 - flip),
   b |-> f[flip],
   c |-> previousInFace(f, flip),
   d |-> f[0 - flip]]

\* flip(e) needs e and -e to lie in two different triangles.
Flippable(f, e) ==
  /\ e \in DOMAIN f
  /\ f[f[f[e]]] = e /\ f[e] # e /\ f[f[e]] # e
  /\ f[f[f[0 - e]]] = 0 - e /\ f[0 - e] # 0 - e /\ f[f[0 - e]] # 0 - e
  /\ (0 - e) \notin FaceOf(f, e)

----------------------------------------------------------------------------
(* Flat triangulation *)

\* HalfEdgeMap<Vector>::set: the map is odd, storing a value at e stores its
\* negative at -e.
HalfEdgeMapSet(map, e, v) == [map EXCEPT ![e] = v, ![0 - e] = Neg(v)]

\* HalfEdgeMap<Vector>(combinatorial, vectors, ...): built from the vectors
\* of the positive half-edges.
HalfEdgeMapOf(n, vs) == [e \in HalfEdgesOf(n) |-> IF e > 0 THEN vs[e] ELSE Neg(vs[0 - e])]

\* The constructor's loop: for every half-edge, the sum along its face.
FaceClosed(f, v, e) == Add(Add(v[e], v[f[e]]), v[f[f[e]]]) = Zero

\* A constructor that compares only the first coordinate of the sum.
ConstructorAcceptsFirstCoordinate(f, v) ==
  \A e \in DOMAIN f : Add(Add(v[e], v[f[e]]), v[f[f[e]]])[1] = 0

ConstructorAccepts(f, v) == \A e \in DOMAIN f : FaceClosed(f, v, e)

\* An update that adds the next half-edge of the face, not its reverse.
updateAfterFlipUnreversed(map, halfEdge, f, s) ==
  HalfEdgeMapSet(map, halfEdge,
                 Add(map[f[halfEdge]], map[s[halfEdge]]))

\* An update that takes the half-edge clockwise at the vertex.
updateAfterFlipClockwise(map, halfEdge, f, s) ==
  HalfEdgeMapSet(map, halfEdge,
                 Add(map[0 - f[halfEdge]],
                     map[CHOOSE x \in DOMAIN s : s[x] = halfEdge]))

\* updateAfterFlip of the flat vectors store, reading the new permutations.
updateAfterFlip(map, halfEdge, f, s) ==
  HalfEdgeMapSet(map, halfEdge,
                 Add(map[0 - f[halfEdge]], map[s[halfEdge]]))

\* The surfaces the model constructs: the unit-square torus of the spec
\* (1 = (1,0), 2 = (0,1), 3 = (-1,-1)) and a torus with two vertices made of
\* two unit squares.
Square ==
  [n |-> 3,
   cycles |-> {<<1, 2, 3>>, <<-1, -2, -3>>},
   vectors |-> <<(<<1, 0>>), (<<0, 1>>), (<<-1, -1>>)>>]

TwoSquares ==
  [n |-> 6,
   cycles |-> {<<1, 2, -3>>, <<3, -1, -4>>, <<5, 4, -6>>, <<6, -5, -2>>},
   vectors |-> <<(<<1, 0>>), (<<0, 1>>), (<<1, 1>>), (<<0, 1>>), (<<1, 0>>), (<<1, 1>>)>>]

Surfaces == {Square, TwoSquares}

\* Values a caller may put in place of one vector of a surface.
Perturbations == {<<x, y>> : x \in {-1, 0, 1}, y \in {-1, 0, 1}}

Inputs(S) ==
  {S.vectors} \cup
  {[S.vectors EXCEPT ![i] = p] : i \in 1..S.n, p \in Perturbations}

Snapshot(f, s, v) == [faces |-> f, vertices |-> s, vectors |-> v]

NoOperation ==
  [op |-> "none", e |-> 0, kind |-> "none", a |-> 0, b |-> 0, c |-> 0, d |-> 0,
   flipped |-> 0, handlers |-> <<>>]

NoFlip(f, s, v) == [e |-> 0, n |-> 0, faces |-> f, vertices |-> s, vectors |-> v]

InitFlat ==
  \E S \in Surfaces : \E vs \in Inputs(S) :
    LET f == FacesFromCycles(S.n, S.cycles)
        s == VerticesFromFaces(f)
        v == HalfEdgeMapOf(S.n, vs)
    IN  /\ status = "new"
        /\ input = vs
        /\ faces = f
        /\ vertices = s
        /\ vectors = v
        /\ initial = Snapshot(f, s, v)
        /\ pre = NoFlip(f, s, v)
        /\ run = NoFlip(f, s, v)
        /\ nflips = 0
        /\ hidden = [e \in DOMAIN f |-> <<>>]
        /\ original = Snapshot(f, s, v)
        /\ vertical = Zero
        /\ last = NoOperation
        /\ query = <<>> /\ answer = <<>>

\* FlatTriangulation(combinatorial, vectors): CHECK_ARGUMENT(!zero) per half-edge.
Construct ==
  /\ status = "new"
  /\ status' = IF ConstructorAccepts(faces, vectors) THEN "ok" ELSE "InvalidArgument"
  /\ UNCHANGED <<input, faces, vertices, vectors, initial, pre, run, nflips,
                 hidden, original, vertical, last, query, answer>>

\* FlatTriangulation::flip(e): the combinatorial flip, then afterFlip(e).
FlatFlip(e) ==
  /\ status = "ok"
  /\ nflips < MaxFlips
  /\ Flippable(faces, e)
  /\ FaceClosed(faces, vectors, e) /\ FaceClosed(faces, vectors, 0 - e)
  /\ LET f == FlipFaces(faces, e)
         s == FlipVertices(faces, vertices, e)
         v == updateAfterFlip(vectors, e, f, s)
     IN  /\ InBox(v[e])
         /\ faces' = f
         /\ vertices' = s
         /\ vectors' = v
         /\ pre' = [e |-> e, n |-> 1, faces |-> faces, vertices |-> vertices,
                    vectors |-> vectors]
         /\ run' = IF run.e = e /\ run.n < MaxRun
                   THEN [run EXCEPT !.n = run.n + 1]
                   ELSE [e |-> e, n |-> 1, faces |-> faces, vertices |-> vertices,
                         vectors |-> vectors]
  /\ nflips' = nflips + 1
  /\ UNCHANGED <<status, input, initial, hidden, original, vertical, last,
                 query, answer>>

NextFlat ==
  \/ Construct
  \/ \E e \in DOMAIN faces : FlatFlip(e)

SpecFlat == InitFlat /\ [][NextFlat]_vars

----------------------------------------------------------------------------
(* Collapsed flat triangulation *)

\* 2 * (signed area) summed over the faces, each face counted once per half-edge.
RECURSIVE FaceAreas(_, _, _)
FaceAreas(f, v, S) ==
  IF S = {} THEN 0
  ELSE LET x == CHOOSE y \in S : TRUE
       IN  Cross(v[x], v[f[x]]) + FaceAreas(f, v, S \ {x})

Area6(f, v) == FaceAreas(f, v, DOMAIN f)

\* A saddle connection is modelled by the vector of its chain.

\* Vertical::perpendicular(v): the component of v across the vertical.
perpendicular(vert, v) == Cross(v, vert)

\* Vertical::parallel(v): the component of v along the vertical.
parallel(vert, v) == Dot(vert, v)

\* Vertical::parallel(e): the half-edge is parallel to the vertical.
parallelEdge(vert, v, e) == Cross(vert, v[e]) = 0

\* Vertical::large(e): the vertical component of the vector is positive.
large(vert, v, e) == parallel(vert, v[e]) > 0

\* std::list operations on the lists of the collapsedHalfEdges store.
PushFront(h, e, c) == [h EXCEPT ![e] = <<c>> \o h[e]]

SpliceEnd(h, target, source) ==
  [h EXCEPT ![target] = h[target] \o h[source], ![source] = <<>>]

SpliceBegin(h, target, source) ==
  [h EXCEPT ![target] = h[source] \o h[target], ![source] = <<>>]

\* The lambda set(target, source) of updateBeforeCollapse, on both stores.
Set(st, target, source) ==
  [v |-> [st.v EXCEPT ![target] = st.v[source]],
   h |-> [st.h EXCEPT ![target] = st.h[source]]]

\* vectors.set(e, value): the store of a collapsed surface is not odd.
SetVector(st, e, value) == [v |-> [st.v EXCEPT ![e] = value], h |-> st.h]

WithLists(st, h) == [v |-> st.v, h |-> h]

\* sum(lhs, rhs) of updateAfterFlip: the connection of the summed chains.
sum(lhs, rhs) == Add(lhs, rhs)

RECURSIVE SumSeq(_)
SumSeq(cs) == IF cs = <<>> THEN Zero ELSE Add(Head(cs), SumSeq(Tail(cs)))

\* for (connection : list) vectors.set(e, sum(vectors.get(e), connection))
RECURSIVE PullOver(_, _)
PullOver(value, cs) ==
  IF cs = <<>> THEN value ELSE PullOver(sum(value, Head(cs)), Tail(cs))

\* updateAfterFlip: b is pulled over the connections hidden in flip, d is
\* pushed over those hidden in -flip.
Pulled(v, h, flip, q) ==
  [v EXCEPT ![q.b] = PullOver(@, h[flip]), ![q.d] = PullOver(@, h[0 - flip])]

\* The lists of flip and -flip moved to the ends of -d and -b, crosswise.
SplicedCrossed(h, flip, q) == SpliceEnd(SpliceEnd(h, 0 - q.d, flip), 0 - q.b, 0 - flip)

\* updateAfterFlip: the lists of flip and -flip move to the ends of -b and -d.
Spliced(h, flip, q) == SpliceEnd(SpliceEnd(h, 0 - q.b, flip), 0 - q.d, 0 - flip)

\* updateAfterFlip: the vectors of flip and -flip are deduced.
Deduced(v, flip, q) ==
  [v EXCEPT ![flip] = sum(v[q.d], v[q.a]), ![0 - flip] = Neg(sum(v[q.d], v[q.a]))]

\* updateAfterFlip: ok is the assertion "face not closed after flip".
FlipAsserted(v, h, flip, q) ==
  [v |-> v, h |-> h, ok |-> v[0 - flip] = sum(v[q.b], v[q.c]), q |-> q]

\* An update that leaves b and d as they were instead of carrying them over
\* the connections hidden in flip and -flip.
updateAfterFlipUnpulled(v, h, flip, q) ==
  FlipAsserted(Deduced(v, flip, q), Spliced(h, flip, q), flip, q)

\* updateAfterFlip of the vectors store of a collapsed surface, in the gadget
\* q = (a, b, c, d) of handleFlip.
updateAfterFlipIn(v, h, flip, q) ==
  FlipAsserted(Deduced(Pulled(v, h, flip, q), flip, q), Spliced(h, flip, q), flip, q)

\* f holds the faces after the flip.
updateAfterFlipCollapsed(f, v, h, flip) ==
  updateAfterFlipIn(v, h, flip, handleFlip(f, flip))

\* The gadget (a -collapse d)(c collapse b) of updateBeforeCollapse.
Gadget(f, collapse) ==
  [a |-> previousInFace(f, 0 - collapse),
   b |-> f[collapse],
   c |-> previousInFace(f, collapse),
   d |-> f[0 - collapse],
   collapse |-> collapse]

\* A gadget case that forgets to reset the vector of -a.
CollapseGadgetUnnegated(st, a, b, c, d) ==
  Set(Set(WithLists(st, SpliceBegin(SpliceEnd(st.h, a, b), 0 - a, 0 - b)),
          b, a), 0 - b, 0 - a)

\* The five cases of updateBeforeCollapse, after the two push_front calls.
CollapseGadget(st, a, b, c, d) ==
  Set(Set(WithLists(SetVector(st, 0 - a, Neg(st.v[a])),
                    SpliceBegin(SpliceEnd(st.h, a, b), 0 - a, 0 - b)),
          b, a), 0 - b, 0 - a)

CollapseInnerAC(st, a, b, c, d) ==
  Set(Set(Set(Set(
    WithLists(st, SpliceEnd(SpliceEnd(SpliceEnd(SpliceEnd(st.h,
                    0 - b, c), 0 - b, d), 0 - d, a), 0 - d, b)),
    a, 0 - d), b, 0 - d), c, 0 - b), d, 0 - b)

CollapseInnerBD(st, a, b, c, d) ==
  Set(Set(Set(Set(
    WithLists(st, SpliceEnd(SpliceEnd(SpliceEnd(SpliceEnd(st.h,
                    0 - a, d), 0 - a, c), 0 - c, b), 0 - c, a)),
    a, 0 - c), b, 0 - c), c, 0 - a), d, 0 - a)

\* A side whose lists are moved to the outer edges and not set back on the
\* inner ones.
CollapseSideUnset(st, x, y) ==
  IF x = 0 - y
  THEN SetVector(st, 0 - x, Neg(st.v[x]))
  ELSE WithLists(st, SpliceEnd(SpliceEnd(st.h, 0 - x, y), 0 - y, x))

\* One side (x y) of the gadget: it collapses to a single edge when x = -y.
CollapseSide(st, x, y) ==
  IF x = 0 - y
  THEN SetVector(st, 0 - x, Neg(st.v[x]))
  ELSE Set(Set(WithLists(st, SpliceEnd(SpliceEnd(st.h, 0 - x, y), 0 - y, x)),
               x, 0 - y), y, 0 - x)

CollapseSides(st, a, b, c, d) == CollapseSide(CollapseSide(st, a, d), b, c)

\* A generic case that resets the inner edges without moving the hidden
\* connections of the outer edges along.
CollapseDistinctUnspliced(st, a, b, c, d) ==
  Set(Set(Set(Set(st, a, 0 - d), b, 0 - c), c, 0 - b), d, 0 - a)

CollapseDistinct(st, a, b, c, d) ==
  Set(Set(Set(Set(
    WithLists(st, SpliceEnd(SpliceEnd(SpliceEnd(SpliceEnd(st.h,
                    0 - a, d), 0 - b, c), 0 - c, b), 0 - d, a)),
    a, 0 - d), b, 0 - c), c, 0 - b), d, 0 - a)

\* A case split that forgets the left side: b = -c alone is not recognised.
CollapseCaseRightOnly(a, b, c, d) ==
  IF a = 0 - c /\ b = 0 - d THEN "gadget"
  ELSE IF a = 0 - c THEN "innerAC"
  ELSE IF b = 0 - d THEN "innerBD"
  ELSE IF a = 0 - d THEN "sides"
  ELSE "distinct"

\* The branch of updateBeforeCollapse taken for a gadget.
CollapseCase(a, b, c, d) ==
  IF a = 0 - c /\ b = 0 - d THEN "gadget"
  ELSE IF a = 0 - c THEN "innerAC"
  ELSE IF b = 0 - d THEN "innerBD"
  ELSE IF a = 0 - d \/ b = 0 - c THEN "sides"
  ELSE "distinct"

CollapseCases(st, kind, a, b, c, d) ==
  CASE kind = "gadget"  -> CollapseGadget(st, a, b, c, d)
    [] kind = "innerAC" -> CollapseInnerAC(st, a, b, c, d)
    [] kind = "innerBD" -> CollapseInnerBD(st, a, b, c, d)
    [] kind = "sides"   -> CollapseSides(st, a, b, c, d)
    [] OTHER            -> CollapseDistinct(st, a, b, c, d)

\* handleCollapse: the positive half-edge of the edge, turned to point along
\* the vertical.
handleCollapse(vert, v, collapse_) ==
  IF parallel(vert, v[Abs(collapse_)]) < 0 THEN 0 - Abs(collapse_) ELSE Abs(collapse_)

\* The connection recorded with its two signs exchanged.
RecordedNegated(v, h, g) ==
  [v |-> v,
   h |-> PushFront(PushFront(h, g.b, Neg(v[g.collapse])), g.d, v[g.collapse])]

\* The connection is recorded in front of the lists of b and d.
Recorded(v, h, g) ==
  [v |-> v,
   h |-> PushFront(PushFront(h, g.b, v[g.collapse]), g.d, Neg(v[g.collapse]))]

\* The assertions of updateBeforeCollapse on the stores r it leaves, v being
\* the vectors it found.
CollapseAsserted(r, v, g, kind) ==
  [v |-> r.v, h |-> r.h, kind |-> kind,
   a |-> g.a, b |-> g.b, c |-> g.c, d |-> g.d, collapse |-> g.collapse, q |-> g,
   ok |-> /\ Neg(v[g.collapse]) = v[0 - g.collapse]
          /\ kind = "distinct" =>
               Cardinality({g.a, g.b, g.c, g.d,
                            0 - g.a, 0 - g.b, 0 - g.c, 0 - g.d}) = 8
          /\ r.h[0 - g.a] # <<>> /\ r.h[g.b] # <<>>
          /\ r.h[0 - g.c] # <<>> /\ r.h[g.d] # <<>>]

updateBeforeCollapseCase(v, h, g, kind) ==
  CollapseAsserted(CollapseCases(Recorded(v, h, g), kind, g.a, g.b, g.c, g.d),
                   v, g, kind)

updateBeforeCollapseIn(v, h, g) ==
  updateBeforeCollapseCase(v, h, g, CollapseCase(g.a, g.b, g.c, g.d))

\* updateBeforeCollapse of the vectors store; f holds the faces before the
\* collapse.
updateBeforeCollapse(f, vert, v, h, collapse_) ==
  updateBeforeCollapseIn(v, h, Gadget(f, handleCollapse(vert, v, collapse_)))

\* FlatTriangulationCombinatorial::collapse, structural part.
\* The edge is taken out of its two faces (a -collapse d)(c collapse b).
RemoveEdge(f, e) ==
  [x \in DOMAIN f \ {e, 0 - e} |->
     IF x = previousInFace(f, e) THEN f[e]
     ELSE IF x = previousInFace(f, 0 - e) THEN f[0 - e]
     ELSE f[x]]

\* A face (x y) left with two sides, y # -x, is closed up: its sides become
\* one edge, x takes the place of -y, and y, -y are erased.
Glue(f, x, y) ==
  [w \in DOMAIN f \ {y, 0 - y} |->
     IF f[IF w = x THEN 0 - y ELSE w] = 0 - y
     THEN x
     ELSE f[IF w = x THEN 0 - y ELSE w]]

\* A face (x y) with y = -x stays as a collapsed face.
GlueUnlessCollapsed(f, x, y) == IF y = 0 - x THEN f ELSE Glue(f, x, y)

\* The name of x once the face (a d) is closed up.
Relabelled(x, a, d) == IF d # 0 - a /\ x = 0 - d THEN a ELSE x

CollapseGadgetFaces(f, g) ==
  GlueUnlessCollapsed(GlueUnlessCollapsed(RemoveEdge(f, g.collapse), g.a, g.d),
                      Relabelled(g.c, g.a, g.d), Relabelled(g.b, g.a, g.d))

CollapseFaces(f, collapse) == CollapseGadgetFaces(f, Gadget(f, collapse))

\* collapse(e) needs e and -e to lie in two different triangles.
Collapsible(f, e) == Flippable(f, e)

Restrict(g, D) == [x \in D |-> g[x]]

\* Implementation<FlatTriangulation<T>>::area of a triangle with sides a, b, c.
area(a, b, c) == Cross(a, b)

\* FlatTriangulation<T>::area(), as compared in check(): every face once per
\* half-edge.
OriginalArea(o) == Area6(o.faces, o.vectors)

RECURSIVE HiddenArea(_, _)
HiddenArea(ve, cs) ==
  IF cs = <<>> THEN 0
  ELSE 3 * area(Head(cs), Add(ve, Neg(Head(cs))), Neg(ve)) + HiddenArea(ve, Tail(cs))

\* The area summed by check().
RECURSIVE CollapsedAreas(_, _, _, _)
CollapsedAreas(f, v, h, S) ==
  IF S = {} THEN 0
  ELSE LET e == CHOOSE x \in S : TRUE
       IN  (IF f[e] # previousInFace(f, e)
            THEN area(v[e], v[f[e]], v[previousInFace(f, e)]) ELSE 0)
           + HiddenArea(v[e], h[e]) + CollapsedAreas(f, v, h, S \ {e})

CollapsedArea(f, v, h) == CollapsedAreas(f, v, h, DOMAIN f)

\* check(): the faces close across the vertical ...
checkFaces(f, vert, v) ==
  \A e \in DOMAIN f :
    f[e] = 0 - e \/
      perpendicular(vert, v[e]) + perpendicular(vert, v[f[e]])
        + perpendicular(vert, v[previousInFace(f, e)]) = 0

\* ... and the area is that of the uncollapsed surface.
checkArea(f, v, h, o) == CollapsedArea(f, v, h) = OriginalArea(o)

check(f, vert, v, h, o) == checkFaces(f, vert, v) /\ checkArea(f, v, h, o)

\* An original that shares its permutations with the collapsed surface.
uncollapsedShared(o) == [o EXCEPT !.faces = faces, !.vertices = vertices]

\* FlatTriangulationCollapsed::uncollapsed(): the original kept by the
\* implementation; the collapsed surface works on a clone of its combinatorics.
uncollapsed(o) == o

\* The stores attached to the combinatorics of a collapsed surface, in the
\* order in which its constructor registers them.
StoresReversed == <<"vectors", "collapsedHalfEdges">>

Stores == <<"collapsedHalfEdges", "vectors">>

\* What a handler notes of its run: its store, the signal, the half-edge and
\* the gadget (a, b, c, d) it has read from the permutations.
Entry(store, signal, e, g) ==
  [store |-> store, signal |-> signal, e |-> e,
   a |-> g.a, b |-> g.b, c |-> g.c, d |-> g.d]

\* The stores while a signal is dispatched: st before a handler, w what the
\* handler leaves.
Dispatching(v, h, log) == [v |-> v, h |-> h, ok |-> TRUE, log |-> log, u |-> <<>>]

Handled(st, w, store, signal, e) ==
  [v |-> w.v, h |-> w.h, ok |-> st.ok /\ w.ok,
   log |-> Append(st.log, Entry(store, signal, e, w.q)), u |-> w]

\* CollapsedHalfEdge::updateAfterFlip: reads the gadget through handleFlip and
\* leaves the stores to the handler of the vectors.
collapsedHalfEdgesAfterFlip(f, v, h, flip) ==
  [v |-> v, h |-> h, ok |-> TRUE, q |-> handleFlip(f, flip)]

afterFlipOf(store, f, v, h, flip) ==
  IF store = "vectors"
  THEN updateAfterFlipCollapsed(f, v, h, flip)
  ELSE collapsedHalfEdgesAfterFlip(f, v, h, flip)

\* afterFlip(flip): the handlers run one after the other on the flipped faces f.
RECURSIVE afterFlip(_, _, _, _)
afterFlip(stores, f, st, flip) ==
  IF stores = <<>> THEN st
  ELSE afterFlip(Tail(stores), f,
                 Handled(st, afterFlipOf(Head(stores), f, st.v, st.h, flip),
                         Head(stores), "afterFlip", flip),
                 flip)

\* CollapsedHalfEdge::updateBeforeCollapse: reads the gadget through
\* handleCollapse and leaves the stores to the handler of the vectors.
collapsedHalfEdgesBeforeCollapseIn(v, h, g) ==
  [v |-> v, h |-> h, kind |-> CollapseCase(g.a, g.b, g.c, g.d),
   a |-> g.a, b |-> g.b, c |-> g.c, d |-> g.d, collapse |-> g.collapse, q |-> g,
   ok |-> TRUE]

collapsedHalfEdgesBeforeCollapse(f, vert, v, h, collapse_) ==
  collapsedHalfEdgesBeforeCollapseIn(v, h, Gadget(f, handleCollapse(vert, v, collapse_)))

beforeCollapseOf(store, f, vert, v, h, collapse_) ==
  IF store = "vectors"
  THEN updateBeforeCollapse(f, vert, v, h, collapse_)
  ELSE collapsedHalfEdgesBeforeCollapse(f, vert, v, h, collapse_)

\* A handler of beforeCollapse has run at the half-edge handleCollapse gave it.
HandledCollapse(st, w, store) == Handled(st, w, store, "beforeCollapse", w.collapse)

\* beforeCollapse(edge): the handlers run one after the other on the faces f
\* the collapse has not touched yet.
RECURSIVE beforeCollapse(_, _, _, _, _)
beforeCollapse(stores, f, vert, st, collapse_) ==
  IF stores = <<>> THEN st
  ELSE beforeCollapse(Tail(stores), f, vert,
                      HandledCollapse(st, beforeCollapseOf(Head(stores), f, vert, st.v,
                                                           st.h, collapse_),
                                      Head(stores)),
                      collapse_)

\* FlatTriangulationCollapsed::collapse(e): beforeCollapse handlers, the
\* structural collapse, check().
CollapseChecked(f2, vert, v2, h2, st, o) ==
  [faces |-> f2, vertices |-> VerticesFromFaces(f2), vectors |-> v2,
   hidden |-> h2, u |-> st.u, log |-> st.log,
   ok |-> st.ok /\ check(f2, vert, v2, h2, o)]

CollapseErased(f2, vert, st, o) ==
  CollapseChecked(f2, vert, Restrict(st.v, DOMAIN f2), Restrict(st.h, DOMAIN f2), st, o)

CollapseUpdated(f, vert, st, o) ==
  CollapseErased(CollapseFaces(f, st.u.collapse), vert, st, o)

CollapseResult(f, vert, v, h, o, e, log) ==
  CollapseUpdated(f, vert, beforeCollapse(Stores, f, vert, Dispatching(v, h, log), e), o)

\* A torus of two squares, one of them sheared; the only edge along (0,1)
\* lies between four different outer edges.
Sheared ==
  [n |-> 6,
   cycles |-> {<<1, 2, -3>>, <<-6, -4, -1>>, <<3, 4, 5>>, <<6, -5, -2>>},
   vectors |-> <<(<<1, 0>>), (<<0, 1>>), (<<1, 1>>), (<<-2, -1>>), (<<1, 0>>), (<<1, 1>>)>>]

\* The tori with the combinatorics of Sheared: the vectors of 1, 2 and 5 are
\* free, those of 3, 4 and 6 close the faces; every face has positive area.
ShearedBy(v1, v2, v5) ==
  [n |-> 6,
   cycles |-> Sheared.cycles,
   vectors |-> <<v1, v2, Add(v1, v2), Neg(Add(Add(v1, v2), v5)), v5, Add(v5, v2)>>]

PositivelyOriented(S) ==
  \A t \in S.cycles :
    Cross(HalfEdgeMapOf(S.n, S.vectors)[t[1]], HalfEdgeMapOf(S.n, S.vectors)[t[2]]) > 0

Shears == {<<x, y>> : x \in -2..2, y \in -2..2}

ShearedTori ==
  {S \in {ShearedBy(v1, v2, v5) : v1 \in Shears, v2 \in Shears, v5 \in Shears} :
     /\ \A i \in 1..S.n : S.vectors[i] \in Shears
     /\ PositivelyOriented(S)}

CollapsedSurfaces == {Square, TwoSquares} \cup ShearedTori

Verticals == {<<0, 1>>, <<1, 1>>}

\* FlatTriangulationCollapsed(surface, vertical): the combinatorics are cloned,
\* the hidden lists start empty, the vectors are those of the surface.
InitCollapsed ==
  \E S \in CollapsedSurfaces : \E vert \in Verticals :
    /\ status = "making"
    /\ input = S.vectors
    /\ faces = FacesFromCycles(S.n, S.cycles)
    /\ vertices = VerticesFromFaces(faces)
    /\ vectors = HalfEdgeMapOf(S.n, S.vectors)
    /\ initial = Snapshot(faces, vertices, vectors)
    /\ pre = NoFlip(faces, vertices, vectors)
    /\ run = pre
    /\ nflips = 0
    /\ hidden = [e \in DOMAIN faces |-> <<>>]
    /\ original = initial
    /\ vertical = vert
    /\ last = NoOperation
    /\ query = <<>> /\ answer = <<>>

Operation(op, r, flipped) ==
  [op |-> op, e |-> r.u.collapse, kind |-> r.u.kind,
   a |-> r.u.a, b |-> r.u.b, c |-> r.u.c, d |-> r.u.d, flipped |-> flipped,
   handlers |-> r.log]

FlipOperation(w, e) ==
  [op |-> "flip", e |-> e, kind |-> "none",
   a |-> w.u.q.a, b |-> w.u.q.b, c |-> w.u.q.c, d |-> w.u.q.d, flipped |-> e,
   handlers |-> w.log]

\* flip(e) has thrown on one of its two CHECK_ARGUMENTs.
Rejected(e) ==
  [op |-> "InvalidArgument", e |-> e, kind |-> "none",
   a |-> 0, b |-> 0, c |-> 0, d |-> 0, flipped |-> 0, handlers |-> <<>>]

Before(e, n) ==
  [e |-> e, n |-> n, faces |-> faces, vertices |-> vertices, vectors |-> vectors]

\* The surface after collapse(e) has returned or its check() has failed.
CollapseTo(r, then, op, flipped) ==
  /\ status' = IF r.ok THEN then ELSE "AssertionFailed"
  /\ faces' = r.faces
  /\ vertices' = r.vertices
  /\ vectors' = r.vectors
  /\ hidden' = r.hidden
  /\ last' = Operation(op, r, flipped)

\* A loop that collapses whichever half-edge comes first as long as some
\* half-edge is parallel to the vertical.
MakeRoundOfAny(P) ==
  IF P = {}
  THEN /\ status' = IF check(faces, vertical, vectors, hidden, original)
                    THEN "collapsed" ELSE "AssertionFailed"
       /\ UNCHANGED <<faces, vertices, vectors, hidden, pre, last>>
  ELSE \E e \in DOMAIN faces :
         IF Collapsible(faces, e)
         THEN /\ CollapseTo(CollapseResult(faces, vertical, vectors, hidden, original,
                                           e, <<>>),
                            "making", "collapse", 0)
              /\ pre' = Before(e, 0)
         ELSE /\ status' = "NotATriangle"
              /\ UNCHANGED <<faces, vertices, vectors, hidden, pre, last>>

\* One round of the loop of make(): the first half-edge found parallel to the
\* vertical is collapsed; when there is none, check() ends make().
MakeRound(P) ==
  IF P = {}
  THEN /\ status' = IF check(faces, vertical, vectors, hidden, original)
                    THEN "collapsed" ELSE "AssertionFailed"
       /\ UNCHANGED <<faces, vertices, vectors, hidden, pre, last>>
  ELSE \E e \in P :
         IF Collapsible(faces, e)
         THEN /\ CollapseTo(CollapseResult(faces, vertical, vectors, hidden, original,
                                           e, <<>>),
                            "making", "collapse", 0)
              /\ pre' = Before(e, 0)
         ELSE /\ status' = "NotATriangle"
              /\ UNCHANGED <<faces, vertices, vectors, hidden, pre, last>>

MakeStep ==
  /\ status = "making"
  /\ MakeRound({e \in DOMAIN faces : parallelEdge(vertical, vectors, e)})
  /\ UNCHANGED <<input, initial, run, nflips, original, vertical, query, answer>>

\* The surface after a flip that was not followed by a collapse.
FlipTo(f, s, w, e, then) ==
  /\ status' = then
  /\ faces' = f
  /\ vertices' = s
  /\ vectors' = w.v
  /\ hidden' = w.h
  /\ last' = FlipOperation(w, e)

\* A flip that starts the collapse on the stores as they were before the
\* afterFlip handlers ran.
FlipUpdatedStale(e, f, s, w) ==
  /\ \A x \in DOMAIN f : InBox(w.v[x])
  /\ IF ~w.ok
     THEN FlipTo(f, s, w, e, "AssertionFailed")
     ELSE IF parallelEdge(vertical, w.v, e)
     THEN IF Collapsible(f, e)
          THEN CollapseTo(CollapseResult(f, vertical, vectors, hidden, original, e, w.log),
                          "collapsed", "flip+collapse", e)
          ELSE FlipTo(f, s, w, e, "NotATriangle")
     ELSE FlipTo(f, s, w, e,
                 IF check(f, vertical, w.v, w.h, original)
                 THEN "collapsed" ELSE "AssertionFailed")

\* A flip that leaves a half-edge along the vertical in place.
FlipUpdatedUncollapsed(e, f, s, w) ==
  /\ \A x \in DOMAIN f : InBox(w.v[x])
  /\ FlipTo(f, s, w, e,
            IF w.ok /\ check(f, vertical, w.v, w.h, original)
            THEN "collapsed" ELSE "AssertionFailed")

\* flip(e) from the afterFlip handlers on: w is what they leave.
FlipUpdated(e, f, s, w) ==
  /\ \A x \in DOMAIN f : InBox(w.v[x])
  /\ IF ~w.ok
     THEN FlipTo(f, s, w, e, "AssertionFailed")
     ELSE IF parallelEdge(vertical, w.v, e)
     THEN IF Collapsible(f, e)
          THEN CollapseTo(CollapseResult(f, vertical, w.v, w.h, original, e, w.log),
                          "collapsed", "flip+collapse", e)
          ELSE FlipTo(f, s, w, e, "NotATriangle")
     ELSE FlipTo(f, s, w, e,
                 IF check(f, vertical, w.v, w.h, original)
                 THEN "collapsed" ELSE "AssertionFailed")

\* A flip whose handlers are called with the faces as they were before it.
FlipCombinatorialEarly(e, f, s) ==
  FlipUpdated(e, f, s, afterFlip(Stores, faces, Dispatching(vectors, hidden, <<>>), e))

\* flip(e) from the combinatorial flip on, f and s being the flipped permutations.
FlipCombinatorial(e, f, s) ==
  FlipUpdated(e, f, s, afterFlip(Stores, f, Dispatching(vectors, hidden, <<>>), e))

\* The surface before flip(arg), e being arg or its negative, whichever points
\* to the right of the vertical.
BeforeFlip(e, arg) ==
  [e |-> e, n |-> 1, arg |-> arg, faces |-> faces, vertices |-> vertices,
   vectors |-> vectors]

\* flip(arg) once e points to the right of the vertical.
FlipOriented(e, arg) ==
  /\ FlipCombinatorial(e, FlipFaces(faces, e), FlipVertices(faces, vertices, e))
  /\ pre' = BeforeFlip(e, arg)

\* A flip that asks for two triangles only.
flipAdmitsTriangles(vert, v, f, e) ==
  f[f[f[e]]] = e /\ f[f[f[0 - e]]] = 0 - e

\* The two CHECK_ARGUMENTs of flip(e).
flipAdmits(vert, v, f, e) ==
  /\ large(vert, v, e)
  /\ f[f[f[e]]] = e /\ f[f[f[0 - e]]] = 0 - e

\* A flip that hands its argument to the combinatorial flip as it is.
CollapsedFlipAsGiven(e) ==
  /\ status = "collapsed"
  /\ nflips < MaxFlips
  /\ IF flipAdmits(vertical, vectors, faces, e)
     THEN IF Flippable(faces, e)
          THEN /\ FlipOriented(e, e)
               /\ nflips' = nflips + 1
          ELSE /\ status' = "NotATriangle"
               /\ last' = [Rejected(e) EXCEPT !.op = "flip"]
               /\ UNCHANGED <<faces, vertices, vectors, hidden, pre, nflips>>
     ELSE /\ last' = Rejected(e)
          /\ UNCHANGED <<status, faces, vertices, vectors, hidden, pre, nflips>>
  /\ UNCHANGED <<input, initial, run, original, vertical, query, answer>>

\* FlatTriangulationCollapsed::flip(e).
CollapsedFlip(e) ==
  /\ status = "collapsed"
  /\ nflips < MaxFlips
  /\ IF flipAdmits(vertical, vectors, faces, e)
     THEN IF Flippable(faces, e)
          THEN /\ FlipOriented(IF perpendicular(vertical, vectors[e]) < 0
                               THEN 0 - e ELSE e, e)
               /\ nflips' = nflips + 1
          ELSE /\ status' = "NotATriangle"
               /\ last' = [Rejected(e) EXCEPT !.op = "flip"]
               /\ UNCHANGED <<faces, vertices, vectors, hidden, pre, nflips>>
     ELSE /\ last' = Rejected(e)
          /\ UNCHANGED <<status, faces, vertices, vectors, hidden, pre, nflips>>
  /\ UNCHANGED <<input, initial, run, original, vertical, query, answer>>

NextCollapsed ==
  \/ MakeStep
  \/ \E e \in DOMAIN faces : CollapsedFlip(e)

SpecCollapsed == InitCollapsed /\ [][NextCollapsed]_vars

\* make() alone: the constructor and the loop that collapses the vertical
\* half-edges; the loop goes on as long as it finds one.
NextMake == MakeStep

\* The loop is not stopped from outside: as long as make() has not returned,
\* status = "making", its next round is taken. This is weak fairness of
\* MakeStep, which is enabled exactly in these states.
MakeGoesOn == []<>(status # "making") \/ []<><<MakeStep>>_vars

SpecMake == InitCollapsed /\ [][NextMake]_vars /\ MakeGoesOn

----------------------------------------------------------------------------
(* SaddleConnections: the query builder over the sectors of a surface *)

\* Vector::ccw and Vector::orientation: the sense of v seen from u.
ccw(u, v) ==
  IF Cross(u, v) > 0 THEN "COUNTERCLOCKWISE"
  ELSE IF Cross(u, v) < 0 THEN "CLOCKWISE" ELSE "COLLINEAR"

orientation(u, v) ==
  IF Dot(u, v) > 0 THEN "SAME"
  ELSE IF Dot(u, v) < 0 THEN "OPPOSITE" ELSE "ORTHOGONAL"

\* A containment that takes the ray of end into the sector as well.
inSectorClosed(v, begin, end) ==
  \/ ccw(end, v) = "COLLINEAR" /\ orientation(end, v) = "SAME"
  \/ IF ccw(begin, end) = "COUNTERCLOCKWISE"
     THEN ccw(begin, v) # "CLOCKWISE" /\ ccw(v, end) = "COUNTERCLOCKWISE"
     ELSE IF ccw(begin, end) = "CLOCKWISE"
     THEN ~(ccw(end, v) # "CLOCKWISE" /\ ccw(v, begin) = "COUNTERCLOCKWISE")
     ELSE ccw(begin, v) # "CLOCKWISE"

\* Vector::inSector(begin, end): v lies in the sector from begin, included,
\* counterclockwise to end, excluded; the ray of begin when both point the
\* same way.
inSector(v, begin, end) ==
  IF ccw(begin, end) = "COUNTERCLOCKWISE"
  THEN ccw(begin, v) # "CLOCKWISE" /\ ccw(v, end) = "COUNTERCLOCKWISE"
  ELSE IF ccw(begin, end) = "CLOCKWISE"
  THEN ~(ccw(end, v) # "CLOCKWISE" /\ ccw(v, begin) = "COUNTERCLOCKWISE")
  ELSE IF orientation(begin, end) = "SAME"
  THEN ccw(begin, v) = "COLLINEAR" /\ orientation(begin, v) = "SAME"
  ELSE \/ ccw(begin, v) = "COUNTERCLOCKWISE"
       \/ ccw(begin, v) = "COLLINEAR" /\ orientation(begin, v) = "SAME"

\* The directions of the vectors handed to the queries.
Directions == {v \in (-1 .. 1) \X (-1 .. 1) : v # Zero}

\* Sector(source) and Sector(source, begin, end).
Sector(source) == [source |-> source, sector |-> <<>>]

SectorBetween(source, begin, end) == [source |-> source, sector |-> <<begin, end>>]

\* The boundaries refine() works with.
boundaries(v, s, S) ==
  IF S.sector = <<>> THEN <<v[S.source], v[s[S.source]]>> ELSE S.sector

\* The two ASSERTs of refine().
refineAsserted(edge, first, second) ==
  /\ ccw(first, edge) # "CLOCKWISE"
  /\ ccw(second, edge) # "COUNTERCLOCKWISE"

inSectorExclusive(v, begin, end) ==
  inSector(v, begin, end) /\ ~(ccw(v, begin) = "COLLINEAR" /\ orientation(v, begin) = "SAME")

\* A refinement that treats an end on the first boundary like any other.
refineInclusive(S, first, second, sectorBegin, sectorEnd) ==
  IF inSector(sectorBegin, first, second)
  THEN IF ccw(sectorBegin, sectorEnd) = "CLOCKWISE"
       THEN IF ccw(first, sectorEnd) = "COUNTERCLOCKWISE"
            THEN <<SectorBetween(S.source, sectorBegin, second),
                   SectorBetween(S.source, first, sectorEnd)>>
            ELSE <<SectorBetween(S.source, sectorBegin, second)>>
       ELSE IF inSector(sectorEnd, first, second)
            THEN <<SectorBetween(S.source, sectorBegin, sectorEnd)>>
            ELSE <<SectorBetween(S.source, sectorBegin, second)>>
  ELSE IF inSector(sectorEnd, first, second)
  THEN <<SectorBetween(S.source, first, sectorEnd)>>
  ELSE IF inSector(first, sectorBegin, sectorEnd)
  THEN <<S>>
  ELSE <<>>

\* Sector::refine once the boundaries (first, second) of S are known.
refineIn(S, first, second, sectorBegin, sectorEnd) ==
  IF inSector(sectorBegin, first, second)
  THEN IF ccw(sectorBegin, sectorEnd) = "CLOCKWISE"
       THEN IF ccw(first, sectorEnd) = "COUNTERCLOCKWISE"
            THEN <<SectorBetween(S.source, sectorBegin, second),
                   SectorBetween(S.source, first, sectorEnd)>>
            ELSE <<SectorBetween(S.source, sectorBegin, second)>>
       ELSE IF inSector(sectorEnd, first, second)
            THEN <<SectorBetween(S.source, sectorBegin, sectorEnd)>>
            ELSE <<SectorBetween(S.source, sectorBegin, second)>>
  ELSE IF inSectorExclusive(sectorEnd, first, second)
  THEN <<SectorBetween(S.source, first, sectorEnd)>>
  ELSE IF inSector(first, sectorBegin, sectorEnd)
  THEN <<S>>
  ELSE <<>>

refineWithin(S, bs, sectorBegin, sectorEnd) ==
  refineIn(S, bs[1], bs[2], sectorBegin, sectorEnd)

\* Sector::refine(surface, sectorBegin, sectorEnd).
refine(v, s, S, sectorBegin, sectorEnd) ==
  refineWithin(S, boundaries(v, s, S), sectorBegin, sectorEnd)

refineAssertedWithin(edge, bs) == refineAsserted(edge, bs[1], bs[2])

refineAsserts(v, s, S) == refineAssertedWithin(v[S.source], boundaries(v, s, S))

\* Sector::contains(connection), the connection given by source and vector.
containsWithin(S, bs, source, vec) ==
  /\ source = S.source
  /\ S.sector = <<>> \/ inSector(vec, bs[1], bs[2])

contains(v, s, S, source, vec) == containsWithin(S, boundaries(v, s, S), source, vec)

\* surface->halfEdges(): 1, -1, 2, -2, ...
halfEdges(n) == [i \in 1 .. 2 * n |-> IF i % 2 = 1 THEN (i + 1) \div 2 ELSE 0 - (i \div 2)]

\* An implementation that starts with a sector per edge only, that of its
\* positive half-edge.
ImplementationOfEdges(n) ==
  [searchRadius |-> 0, sectors |-> [i \in 1 .. n |-> Sector(i)]]

\* ImplementationOf<SaddleConnections>(surface): no search radius, written 0,
\* and one sector per half-edge.
Implementation(n) ==
  [searchRadius |-> 0, sectors |-> [i \in 1 .. 2 * n |-> Sector(halfEdges(n)[i])]]

\* A returned query that shares the implementation of the receiver.
ShareImpl(impl) == [cells |-> <<impl, impl>>, at |-> 1]

\* SaddleConnections ret(surface); ret.impl = impl (or ret = *this): the
\* implementation of the receiver, cell 1, is copied into that of ret, cell 2.
CopyImpl(impl) == [cells |-> <<impl, impl>>, at |-> 2]

WithRadius(c, r) == [c EXCEPT !.cells[c.at].searchRadius = r]

WithSectors(c, sectors) == [c EXCEPT !.cells[c.at].sectors = sectors]

Min(a, b) == IF a < b THEN a ELSE b

\* SaddleConnections::bound(searchRadius).
Bounded(c, r) ==
  WithRadius(c, IF c.cells[c.at].searchRadius # 0
                THEN Min(c.cells[c.at].searchRadius, r) ELSE r)

bound(impl, r) == Bounded(CopyImpl(impl), r)

\* Vertex::source(halfEdge, surface): the vertex a half-edge leaves, as the
\* set of the half-edges leaving it.
VertexSource(s, e) == Orbit(s, e, {})

\* SaddleConnections::source(vertex).
FromVertex(c, s, vertex) ==
  WithSectors(c, SelectSeq(c.cells[c.at].sectors,
                           LAMBDA S : VertexSource(s, S.source) = vertex))

source(impl, s, vertex) == FromVertex(CopyImpl(impl), s, vertex)

\* SaddleConnections::sector(halfEdge).
FromHalfEdge(c, e) ==
  WithSectors(c, SelectSeq(c.cells[c.at].sectors, LAMBDA S : S.source = e))

sectorAt(impl, e) == FromHalfEdge(CopyImpl(impl), e)

\* SaddleConnections::sector(sectorBegin, sectorEnd) with two vectors.
RECURSIVE Refined(_, _, _, _, _)
Refined(v, s, sectors, sectorBegin, sectorEnd) ==
  IF sectors = <<>> THEN <<>>
  ELSE refine(v, s, Head(sectors), sectorBegin, sectorEnd)
         \o Refined(v, s, Tail(sectors), sectorBegin, sectorEnd)

Between(c, v, s, sectorBegin, sectorEnd) ==
  WithSectors(c, Refined(v, s, c.cells[c.at].sectors, sectorBegin, sectorEnd))

sectorVectors(impl, v, s, sectorBegin, sectorEnd) ==
  Between(CopyImpl(impl), v, s, sectorBegin, sectorEnd)

\* SaddleConnections::sector(sectorBegin, sectorEnd) with two connections,
\* each given by its source half-edge and its vector.
RECURSIVE WalkMeets(_, _, _, _)
WalkMeets(s, walk, beginSource, endSource) ==
  IF walk = beginSource THEN FALSE
  ELSE IF walk = endSource THEN TRUE
  ELSE WalkMeets(s, s[walk], beginSource, endSource)

\* The sectors one sector of the receiver contributes.
RefinedBetween(v, s, S, b, e) ==
  IF b.source = e.source
  THEN IF S.source = b.source
       THEN refine(v, s, S, b.vector, e.vector)
       ELSE IF ccw(b.vector, e.vector) = "CLOCKWISE" THEN <<S>> ELSE <<>>
  ELSE IF S.source = b.source
  THEN refine(v, s, S, b.vector, v[s[S.source]])
  ELSE IF S.source = e.source
  THEN IF ccw(v[S.source], e.vector) = "COLLINEAR"
       THEN <<>>
       ELSE refine(v, s, S, v[S.source], e.vector)
  ELSE IF WalkMeets(s, S.source, b.source, e.source) THEN <<S>> ELSE <<>>

\* The ASSERTs of the calls of refine() made for one sector.
RefinedBetweenAsserts(v, s, S, b, e) ==
  (S.source = b.source
     \/ (S.source = e.source /\ b.source # e.source
           /\ ccw(v[S.source], e.vector) # "COLLINEAR"))
    => refineAsserts(v, s, S)

RECURSIVE RefinedConnections(_, _, _, _, _)
RefinedConnections(v, s, sectors, b, e) ==
  IF sectors = <<>> THEN <<>>
  ELSE RefinedBetween(v, s, Head(sectors), b, e)
         \o RefinedConnections(v, s, Tail(sectors), b, e)

BetweenConnections(c, v, s, b, e) ==
  WithSectors(c, RefinedConnections(v, s, c.cells[c.at].sectors, b, e))

sectorConnections(impl, v, s, b, e) ==
  BetweenConnections(
    CopyImpl(source(source(impl, s, VertexSource(s, b.source)).cells[2],
                    s, VertexSource(s, e.source)).cells[2]),
    v, s, b, e)

\* The saddle connections the queries are asked about: along each half-edge
\* and, inside the sector that starts at a positive half-edge, along the
\* diagonal.
Connections(v, s) ==
  {[source |-> e, vector |-> v[e]] : e \in DOMAIN v}
    \cup {[source |-> e, vector |-> Add(v[e], v[s[e]])] : e \in {x \in DOMAIN v : x > 0}}

NoQuery == [searchRadius |-> 0, sectors |-> <<>>]

NoArgument == [r |-> 0, e |-> 0, vertex |-> {}, begin |-> Zero, end |-> Zero,
               from |-> 0, to |-> 0]

NoAnswer == [op |-> "none", ok |-> TRUE, ret |-> NoQuery, fresh |-> TRUE,
             arg |-> NoArgument, n |-> 0, emitted |-> <<>>]

surfaceVars == <<status, input, faces, vertices, vectors, initial, pre, run,
                 nflips, hidden, original, vertical, last>>

\* SaddleConnections(surface) on a flat triangulation.
InitQuery ==
  \E S \in {Square} :
    /\ status = "ok"
    /\ input = S.vectors
    /\ faces = FacesFromCycles(S.n, S.cycles)
    /\ vertices = VerticesFromFaces(faces)
    /\ vectors = HalfEdgeMapOf(S.n, S.vectors)
    /\ initial = Snapshot(faces, vertices, vectors)
    /\ pre = NoFlip(faces, vertices, vectors)
    /\ run = pre
    /\ nflips = 0
    /\ hidden = [e \in DOMAIN faces |-> <<>>]
    /\ original = initial
    /\ vertical = Zero
    /\ last = NoOperation
    /\ query = Implementation(S.n)
    /\ answer = NoAnswer

\* A call on the query has returned ret, or an ASSERT has stopped it.
Returned(op, c, ok, arg) ==
  /\ query' = c.cells[1]
  /\ answer' = [op |-> op, ok |-> ok, ret |-> c.cells[c.at], fresh |-> c.at # 1,
                arg |-> arg, n |-> answer.n + 1, emitted |-> <<>>]
  /\ UNCHANGED surfaceVars

Returns(op, c, ok, arg) ==
  /\ answer.op \in {"none", "="} /\ answer.n < MaxNarrow
  /\ \E r \in {c} : Returned(op, r, ok, arg)

QueryBound(r) ==
  Returns("bound", bound(query, r), TRUE, [NoArgument EXCEPT !.r = r])

QuerySource(e) ==
  Returns("source", source(query, vertices, VertexSource(vertices, e)), TRUE,
          [NoArgument EXCEPT !.vertex = VertexSource(vertices, e)])

QuerySector(e) ==
  Returns("sector", sectorAt(query, e), TRUE, [NoArgument EXCEPT !.e = e])

QuerySectorVectors(b, e) ==
  Returns("sectorVectors", sectorVectors(query, vectors, vertices, b, e),
          \A i \in DOMAIN query.sectors : refineAsserts(vectors, vertices, query.sectors[i]),
          [NoArgument EXCEPT !.begin = b, !.end = e])

QuerySectorConnections(b, e) ==
  Returns("sectorConnections", sectorConnections(query, vectors, vertices, b, e),
          \A i \in DOMAIN query.sectors :
            (/\ VertexSource(vertices, query.sectors[i].source)
                  = VertexSource(vertices, b.source)
             /\ VertexSource(vertices, query.sectors[i].source)
                  = VertexSource(vertices, e.source))
              => RefinedBetweenAsserts(vectors, vertices, query.sectors[i], b, e),
          [NoArgument EXCEPT !.begin = b.vector, !.end = e.vector,
                             !.from = b.source, !.to = e.source])

\* *this = ...: the caller goes on with the query it was returned.
QueryAssign ==
  /\ answer.ok /\ answer.op \notin {"none", "=", "iterate"}
  /\ query' = answer.ret
  /\ answer' = [answer EXCEPT !.op = "=", !.arg = NoArgument]
  /\ UNCHANGED surfaceVars

\* k * u.
Scaled(k, u) == <<k * u[1], k * u[2]>>

\* p and q have no common divisor: a segment along p * u + q * v meets no
\* vertex of the torus spanned by u and v on its way.
Coprime(p, q) ==
  /\ p # 0 \/ q # 0
  /\ \A k \in 2 .. MaxBound + 1 : Abs(p) % k # 0 \/ Abs(q) % k # 0

\* The vectors of the saddle connections of length^2 at most r on a torus with
\* a single vertex, whose half-edges 1 and 2 span its lattice.
Holonomies(v, r) ==
  {w \in {Add(Scaled(pq[1], v[1]), Scaled(pq[2], v[2])) :
            pq \in {x \in (0 - MaxBound .. MaxBound) \X (0 - MaxBound .. MaxBound) :
                      Coprime(x[1], x[2])}} :
     Dot(w, w) <= r}

\* A sector that also holds the connections along the next half-edge, which
\* the sector of that half-edge holds again.
SectorHoldsClosed(v, s, S, r) ==
  {[source |-> S.source, vector |-> w] :
     w \in {x \in Holonomies(v, r) :
              /\ inSectorClosed(x, v[S.source], v[s[S.source]])
              /\ contains(v, s, S, S.source, x)}}

\* The saddle connections the iterator finds in the sector S: they leave the
\* vertex between the half-edge of S and the next one, within the boundaries
\* of S and the search radius.
SectorHolds(v, s, S, r) ==
  {[source |-> S.source, vector |-> w] :
     w \in {x \in Holonomies(v, r) :
              /\ inSector(x, v[S.source], v[s[S.source]])
              /\ contains(v, s, S, S.source, x)}}

\* The order of the connections of one sector: the shorter first, then
\* counterclockwise.
Earlier(x, y) ==
  \/ Dot(x.vector, x.vector) < Dot(y.vector, y.vector)
  \/ /\ Dot(x.vector, x.vector) = Dot(y.vector, y.vector)
     /\ Cross(x.vector, y.vector) > 0

RECURSIVE Listed(_)
ListedFrom(x, C) == <<x>> \o Listed(C \ {x})

Listed(C) ==
  IF C = {} THEN <<>>
  ELSE ListedFrom(CHOOSE x \in C : \A y \in C \ {x} : Earlier(x, y), C)

\* An iteration that goes through the sectors of the half-edges again,
\* whichever sectors the query holds.
RECURSIVE EmittedOfHalfEdges(_, _, _, _)
EmittedOfHalfEdges(v, s, sectors, r) ==
  IF sectors = <<>> THEN <<>>
  ELSE Listed(SectorHolds(v, s, Sector(Head(sectors).source), r))
         \o EmittedOfHalfEdges(v, s, Tail(sectors), r)

\* begin() .. end(): the iterator goes through impl->sectors from cbegin to
\* cend and emits the connections of each.
RECURSIVE Emitted(_, _, _, _)
Emitted(v, s, sectors, r) ==
  IF sectors = <<>> THEN <<>>
  ELSE Listed(SectorHolds(v, s, Head(sectors), r)) \o Emitted(v, s, Tail(sectors), r)

\* for (connection : query): the query is iterated to its end; it needs a
\* search radius to end.
QueryIterate ==
  /\ answer.op \in {"none", "="} /\ query.searchRadius # 0
  /\ answer' = [answer EXCEPT
                  !.op = "iterate", !.ret = query,
                  !.emitted = Emitted(vectors, vertices, query.sectors,
                                      query.searchRadius)]
  /\ UNCHANGED <<surfaceVars, query>>

NextQuery ==
  \/ \E r \in 1 .. MaxBound : QueryBound(r)
  \/ \E e \in DOMAIN faces : QuerySource(e)
  \/ \E e \in DOMAIN faces : QuerySector(e)
  \/ \E b, e \in Directions : QuerySectorVectors(b, e)
  \/ \E b, e \in Connections(vectors, vertices) : QuerySectorConnections(b, e)
  \/ QueryAssign
  \/ QueryIterate

SpecQuery == InitQuery /\ [][NextQuery]_vars

----------------------------------------------------------------------------
(* FlatTriangulationCollapsed::cross and turn *)

\* previousAtVertex: the inverse of the vertex permutation.
previousAtVertex(s, e) == CHOOSE x \in DOMAIN s : s[x] = e

\* cross(e): the connections hidden in e.
cross(h, e) == h[e]

\* A loop that turns counterclockwise, to the next half-edge at the vertex.
RECURSIVE turnLoopOnward(_, _, _, _)
turnLoopOnward(s, h, from, to) ==
  IF from = to THEN <<>>
  ELSE cross(h, from) \o turnLoopOnward(s, h, s[from], to)

\* The loop of turn(): the connections crossed from `from` on, turning
\* clockwise, until `to` is met.
RECURSIVE turnLoop(_, _, _, _)
turnLoop(s, h, from, to) ==
  IF from = to THEN <<>>
  ELSE cross(h, from) \o turnLoop(s, h, previousAtVertex(s, from), to)

\* No connection appears twice in cs.
Distinct(cs) == \A i, j \in DOMAIN cs : cs[i] = cs[j] => i = j

\* turn(from, to): InvalidArgument unless both start at the same vertex; the
\* ASSERT on the connections collected.
turn(s, h, from, to) ==
  IF VertexSource(s, from) # VertexSource(s, to)
  THEN [status |-> "InvalidArgument", connections |-> <<>>]
  ELSE [status |-> IF Distinct(turnLoop(s, h, from, to)) THEN "ok" ELSE "AssertionFailed",
        connections |-> turnLoop(s, h, from, to)]

\* Largest number of flips made before a surface is turned around a vertex.
MaxTurnFlips == 1

\* surface.turn(from, to) on the collapsed surface; what it returns is kept
\* in answer.
CollapsedTurn(from, to) ==
  /\ status = "collapsed" /\ answer = <<>>
  /\ answer' = [op |-> "turn", from |-> from, to |-> to,
                status |-> turn(vertices, hidden, from, to).status,
                connections |-> turn(vertices, hidden, from, to).connections]
  /\ UNCHANGED <<surfaceVars, query>>

NextTurn ==
  \/ MakeStep
  \/ \E e \in DOMAIN faces : answer = <<>> /\ nflips < MaxTurnFlips /\ CollapsedFlip(e)
  \/ \E from, to \in DOMAIN faces : CollapsedTurn(from, to)

SpecTurn == InitCollapsed /\ [][NextTurn]_vars

----------------------------------------------------------------------------
(* Vector(T): sector containment and the slope order *)

\* The sign of a coordinate.
Sign(x) == IF x > 0 THEN 1 ELSE IF x < 0 THEN 0 - 1 ELSE 0

\* A comparison of the rays of two vectors by their angle from (1, 0), which
\* tells a vector from its negative.
CompareSlopeOfRays(lhs, rhs) ==
  IF (lhs[2] < 0 \/ (lhs[2] = 0 /\ lhs[1] < 0)) # (rhs[2] < 0 \/ (rhs[2] = 0 /\ rhs[1] < 0))
  THEN ~(lhs[2] < 0 \/ (lhs[2] = 0 /\ lhs[1] < 0))
  ELSE Cross(lhs, rhs) > 0

\* Vector::CompareSlope: lhs has the smaller slope y/x; a vector without
\* x-coordinate has slope -infinity when it points down and +infinity when it
\* points up, and a vector has the slope of its negative otherwise.
CompareSlope(lhs, rhs) ==
  IF lhs[1] = 0 \/ rhs[1] = 0
  THEN (IF lhs[1] = 0 THEN Sign(lhs[2]) ELSE 0) < (IF rhs[1] = 0 THEN Sign(rhs[2]) ELSE 0)
  ELSE lhs[2] * rhs[1] * Sign(lhs[1]) * Sign(rhs[1]) < rhs[2] * lhs[1] * Sign(lhs[1]) * Sign(rhs[1])

\* The non-zero vectors the operations are called with.
Vectors == {v \in (0 - MaxVector .. MaxVector) \X (0 - MaxVector .. MaxVector) : v # Zero}

\* No surface is involved in the operations of a vector; u, v and w are the
\* vectors they will be called with.
InitVector ==
  /\ status = "vector"
  /\ input = <<>> /\ faces = <<>> /\ vertices = <<>> /\ vectors = <<>>
  /\ initial = <<>> /\ pre = <<>> /\ run = <<>> /\ nflips = 0
  /\ hidden = <<>> /\ original = <<>> /\ vertical = Zero /\ last = <<>>
  /\ query = <<>>
  /\ \E u, v, w \in Vectors :
       answer = [op |-> "none", u |-> u, v |-> v, w |-> w, ret |-> <<>>]

\* u.inSector(v, w) is called.
VectorInSector ==
  /\ answer.op = "none"
  /\ answer' = [answer EXCEPT !.op = "inSector",
                              !.ret = <<inSector(answer.u, answer.v, answer.w)>>]
  /\ UNCHANGED <<surfaceVars, query>>

\* The comparator is called on each pair of u, v, w, as a set keyed by
\* CompareSlope does when it holds them.
VectorCompareSlope ==
  /\ answer.op = "none"
  /\ answer' = [answer EXCEPT
                  !.op = "CompareSlope",
                  !.ret = <<CompareSlope(answer.u, answer.v), CompareSlope(answer.v, answer.u),
                            CompareSlope(answer.v, answer.w), CompareSlope(answer.w, answer.v),
                            CompareSlope(answer.u, answer.w), CompareSlope(answer.w, answer.u)>>]
  /\ UNCHANGED <<surfaceVars, query>>

NextVector ==
  \/ VectorInSector
  \/ VectorCompareSlope

SpecVector == InitVector /\ [][NextVector]_vars

----------------------------------------------------------------------------
(* DMap: the developing map that follows a direction across the faces *)

\* Largest coordinate of the vector of a direction to follow.
MaxDir == 2

\* Largest number of faces a developing map is advanced through.
MaxAdvance == 3

\* aligned(p, q): p and q point the same way; CCW(p, q): q is
\* counterclockwise from p.
aligned(p, q) == Cross(p, q) = 0 /\ Dot(p, q) > 0

CCW(p, q) == Cross(p, q) > 0

\* OEdge::_head_offset: the place of the head of an oriented edge, the vertex
\* it leaves, in the coordinates of its face, whose origin is the head of the
\* first edge of the face; faces are triangles.
HeadOffsets(f, v, first) ==
  [e \in DOMAIN f |->
     IF e \in first THEN Zero
     ELSE IF previousInFace(f, e) \in first THEN v[previousInFace(f, e)]
     ELSE Add(v[previousInFace(f, previousInFace(f, e))], v[previousInFace(f, e)])]

\* OEdge::_tail_offset: the place of the tail, the vertex the edge arrives at.
TailOffsets(f, v, first) ==
  [e \in DOMAIN f |-> Add(HeadOffsets(f, v, first)[e], v[e])]

\* The choices of a first edge in every face.
FirstEdges(f) ==
  {first \in SUBSET DOMAIN f :
     \A e \in DOMAIN f : Cardinality(first \cap {e, f[e], f[f[e]]}) = 1}

head_offset(e) == input.head_offset[e]

tail_offset(e) == input.tail_offset[e]

\* OEdge::next_e, OEdge::pair_e and OEdge::prev_edge().
next_e(e) == faces[e]

pair_e(e) == 0 - e

prev_edge(e) == previousInFace(faces, e)

\* An oriented edge e has vec = vectors[e], from its head to its tail.
\* Dir(e): the direction of the edge e at its head, and the directions at a
\* vertex: vec lies from ep.vec, included, counterclockwise to the vec of the
\* next edge out of the vertex, excluded.
Dir(e) == [ep |-> e, vec |-> vectors[e]]

NoDir == [ep |-> 0, vec |-> Zero]

Dirs ==
  {d \in [ep : DOMAIN faces, vec : (0 - MaxDir .. MaxDir) \X (0 - MaxDir .. MaxDir)] :
     /\ d.vec # Zero
     /\ inSector(d.vec, vectors[d.ep], vectors[vertices[d.ep]])}

\* Dir::RotateCwToVec(w): the direction of w at the vertex of d.
RotateCwToVec(d, w) ==
  [ep |-> CHOOSE e \in VertexSource(vertices, d.ep) :
            inSector(w, vectors[e], vectors[vertices[e]]),
   vec |-> w]

NoDMap ==
  [strt |-> NoDir, c_edge |-> 0, cf_offset |-> Zero, m_going_to_hit |-> FALSE,
   m_vertex_to_hit |-> NoDir, m_next_edge |-> 0, m_current_vert_pos |-> Zero,
   m_next_candidate |-> Zero]

\* setup(), line by line: the candidate is the tail of the edge after c_edge.
setupCandidate(D) == Add(D.cf_offset, tail_offset(next_e(D.c_edge)))

setupHits(D) == aligned(setupCandidate(D), D.strt.vec)

setupNextEdge(D) ==
  IF setupHits(D) \/ CCW(setupCandidate(D), D.strt.vec)
  THEN next_e(next_e(D.c_edge))
  ELSE next_e(D.c_edge)

\* A setup() that takes the position of the tail of c_edge for that of its
\* head.
setupOfTail(D) ==
  [D EXCEPT
     !.m_going_to_hit = setupHits(D),
     !.m_next_candidate = setupCandidate(D),
     !.m_vertex_to_hit =
        IF setupHits(D)
        THEN RotateCwToVec(Dir(pair_e(next_e(D.c_edge))), Neg(setupCandidate(D)))
        ELSE D.m_vertex_to_hit,
     !.m_next_edge = setupNextEdge(D),
     !.m_current_vert_pos = Add(D.cf_offset, tail_offset(D.c_edge))]

\* DMap::setup(): compute the cached values.
setup(D) ==
  [D EXCEPT
     !.m_going_to_hit = setupHits(D),
     !.m_next_candidate = setupCandidate(D),
     !.m_vertex_to_hit =
        IF setupHits(D)
        THEN RotateCwToVec(Dir(pair_e(next_e(D.c_edge))), Neg(setupCandidate(D)))
        ELSE D.m_vertex_to_hit,
     !.m_next_edge = setupNextEdge(D),
     !.m_current_vert_pos = Add(D.cf_offset, head_offset(D.c_edge))]

\* A constructor that starts on the edge of the direction itself.
DMapOfEdge(dir) ==
  setup([NoDMap EXCEPT
           !.strt = dir,
           !.c_edge = dir.ep,
           !.cf_offset = Neg(tail_offset(dir.ep))])

\* DMap::DMap(dir).
DMap(dir) ==
  setup([NoDMap EXCEPT
           !.strt = dir,
           !.c_edge = prev_edge(dir.ep),
           !.cf_offset = Neg(tail_offset(prev_edge(dir.ep)))])

\* An advance() that moves the face offset by the offsets of the tails on
\* both sides of the edge crossed.
advanceByTails(D) ==
  setup([D EXCEPT
           !.cf_offset = Add(Add(D.cf_offset, tail_offset(D.m_next_edge)),
                             Neg(tail_offset(pair_e(D.m_next_edge)))),
           !.c_edge = pair_e(D.m_next_edge)])

\* DMap::advance(): go to the face on the other side of _next_edge().
advance(D) ==
  setup([D EXCEPT
           !.cf_offset = Add(Add(D.cf_offset, head_offset(D.m_next_edge)),
                             Neg(tail_offset(pair_e(D.m_next_edge)))),
           !.c_edge = pair_e(D.m_next_edge)])

SweepSurfaces == {Square, TwoSquares, Sheared}

\* A surface with the offsets of its faces, and no developing map yet.
InitSweep ==
  \E S \in SweepSurfaces :
    /\ status = "sweep"
    /\ faces = FacesFromCycles(S.n, S.cycles)
    /\ vertices = VerticesFromFaces(faces)
    /\ vectors = HalfEdgeMapOf(S.n, S.vectors)
    /\ \E first \in FirstEdges(faces) :
         input = [head_offset |-> HeadOffsets(faces, vectors, first),
                  tail_offset |-> TailOffsets(faces, vectors, first)]
    /\ initial = <<>> /\ pre = <<>> /\ run = <<>> /\ nflips = 0
    /\ hidden = <<>> /\ original = <<>> /\ vertical = Zero /\ last = <<>>
    /\ query = NoDMap
    /\ answer = [op |-> "none", n |-> 0]

\* DMap<PointT> D(strt).
SweepDMap(dir) ==
  /\ answer.op = "none"
  /\ query' = DMap(dir)
  /\ answer' = [op |-> "DMap", n |-> 0]
  /\ UNCHANGED surfaceVars

\* D.advance().
SweepAdvance ==
  /\ answer.op \in {"DMap", "advance"} /\ answer.n < MaxAdvance
  /\ query' = advance(query)
  /\ answer' = [op |-> "advance", n |-> answer.n + 1]
  /\ UNCHANGED surfaceVars

NextSweep ==
  \/ \E dir \in Dirs : SweepDMap(dir)
  \/ SweepAdvance

SpecSweep == InitSweep /\ [][NextSweep]_vars

----------------------------------------------------------------------------
(* SweepNextLeft and NewFollowDir: loops over a developing map *)

\* Largest squared length len2 and largest threshold handed to the loops.
MaxLen2 == 5

MaxThreshold == 1

\* norm(p) of std::complex: the squared length.
norm(p) == Dot(p, p)

\* The vertex a direction starts at, as the set of the edges that leave it;
\* NULL is the empty set.
VertexOf(d) == VertexSource(vertices, d.ep)

NULL == {}

\* Vertex::relevant().
relevant(v) == v \subseteq input.relevant

\* DMap::current_vert_Dir(): the direction from the head of the current edge
\* towards the base of start.
current_vert_Dir(D) == RotateCwToVec(Dir(D.c_edge), Neg(D.m_current_vert_pos))

\* if (D.going_to_hit() && norm(D._vertex_to_hit().vec) < len2 &&
\*     D._vertex_to_hit().v->relevant())
HitsRelevant(D, len2) ==
  /\ D.m_going_to_hit
  /\ norm(D.m_vertex_to_hit.vec) < len2
  /\ relevant(VertexOf(D.m_vertex_to_hit))

\* The first edge of every face: the k-th after the least half-edge of the
\* face.
FirstEdgesAt(f, k) ==
  {e \in DOMAIN f :
     \E m \in {e, f[e], f[f[e]]} :
       /\ \A x \in {e, f[e], f[f[e]]} : m <= x
       /\ e = IF k = 0 THEN m ELSE IF k = 1 THEN f[m] ELSE f[f[m]]}

\* The sets of relevant vertices: unions of vertices.
RelevantSets(s) ==
  {R \in SUBSET DOMAIN s : \A e \in R : VertexSource(s, e) \subseteq R}

Functions == {"SweepNextLeft", "NewFollowDir"}

\* The locals of a call that has not started.
Called(fn, strt, len2, threshold) ==
  [fn |-> fn, pc |-> "call", strt |-> strt, len2 |-> len2, threshold |-> threshold,
   ret |-> <<>>, return_vertex |-> NULL, end_Dir |-> NoDir, end_pos |-> Zero,
   count |-> 0, visited |-> <<>>, met |-> <<>>]

\* A surface, and a call of SweepNextLeft(strt, end_Dir, len2, threshold) or
\* of NewFollowDir(strt, end, len2) about to start.
InitFollow ==
  \E S \in SweepSurfaces :
    /\ status = "sweep"
    /\ faces = FacesFromCycles(S.n, S.cycles)
    /\ vertices = VerticesFromFaces(faces)
    /\ vectors = HalfEdgeMapOf(S.n, S.vectors)
    /\ \E k \in 0 .. 2 : \E R \in RelevantSets(vertices) :
         input = [head_offset |-> HeadOffsets(faces, vectors, FirstEdgesAt(faces, k)),
                  tail_offset |-> TailOffsets(faces, vectors, FirstEdgesAt(faces, k)),
                  relevant |-> R]
    /\ initial = <<>> /\ pre = <<>> /\ run = <<>> /\ nflips = 0
    /\ hidden = <<>> /\ original = <<>> /\ vertical = Zero /\ last = <<>>
    /\ query = NoDMap
    /\ \E fn \in Functions : \E strt \in Dirs :
         \E len2 \in 1 .. MaxLen2 : \E threshold \in 0 .. MaxThreshold :
           answer = Called(fn, strt, len2, threshold)

\* SweepNextLeft up to its loop: D is the map just constructed.
LeftEntered(D) ==
  [answer EXCEPT
     !.pc = "do",
     !.return_vertex = IF HitsRelevant(D, answer.len2)
                       THEN VertexOf(D.m_vertex_to_hit) ELSE NULL,
     !.end_Dir = current_vert_Dir(D),
     !.end_pos = D.m_current_vert_pos,
     !.visited = <<D.m_current_vert_pos>>]

LeftEnter ==
  /\ answer.fn = "SweepNextLeft" /\ answer.pc = "call"
  /\ query' = DMap(answer.strt)
  /\ answer' = LeftEntered(DMap(answer.strt))
  /\ UNCHANGED surfaceVars

\* A new candidate: the current vertex is clockwise from the end position
\* kept so far, and within len2.
NewCandidate(D, end_pos, len2) ==
  /\ ~aligned(D.m_current_vert_pos, end_pos)
  /\ CCW(D.m_current_vert_pos, end_pos)
  /\ norm(D.m_current_vert_pos) < len2

\* A loop that takes for new candidate a vertex counterclockwise from the
\* end position kept so far.
LeftAdvancedAway(D) ==
  [answer EXCEPT
     !.count = @ + 1,
     !.return_vertex = IF HitsRelevant(D, answer.len2)
                       THEN VertexOf(D.m_vertex_to_hit) ELSE @,
     !.end_pos = IF /\ CCW(answer.end_pos, D.m_current_vert_pos)
                    /\ norm(D.m_current_vert_pos) < answer.len2
                 THEN D.m_current_vert_pos ELSE @,
     !.end_Dir = IF /\ CCW(answer.end_pos, D.m_current_vert_pos)
                    /\ norm(D.m_current_vert_pos) < answer.len2
                 THEN current_vert_Dir(D) ELSE @,
     !.visited = Append(@, D.m_current_vert_pos),
     !.pc = IF norm(D.cf_offset) <= answer.len2 + answer.threshold
            THEN "do" ELSE "return",
     !.ret = IF norm(D.cf_offset) <= answer.len2 + answer.threshold
             THEN <<>>
             ELSE <<IF HitsRelevant(D, answer.len2)
                    THEN VertexOf(D.m_vertex_to_hit) ELSE answer.return_vertex>>]

\* A loop that goes on only while the face offset is strictly within
\* len2 + threshold.
LeftAdvancedWithin(D) ==
  [answer EXCEPT
     !.count = @ + 1,
     !.return_vertex = IF HitsRelevant(D, answer.len2)
                       THEN VertexOf(D.m_vertex_to_hit) ELSE @,
     !.end_pos = IF NewCandidate(D, answer.end_pos, answer.len2)
                 THEN D.m_current_vert_pos ELSE @,
     !.end_Dir = IF NewCandidate(D, answer.end_pos, answer.len2)
                 THEN current_vert_Dir(D) ELSE @,
     !.visited = Append(@, D.m_current_vert_pos),
     !.pc = IF norm(D.cf_offset) < answer.len2 + answer.threshold
            THEN "do" ELSE "return",
     !.ret = IF norm(D.cf_offset) < answer.len2 + answer.threshold
             THEN <<>>
             ELSE <<IF HitsRelevant(D, answer.len2)
                    THEN VertexOf(D.m_vertex_to_hit) ELSE answer.return_vertex>>]

\* One round of the do-while loop of SweepNextLeft: D is the map advanced.
LeftAdvanced(D) ==
  [answer EXCEPT
     !.count = @ + 1,
     !.return_vertex = IF HitsRelevant(D, answer.len2)
                       THEN VertexOf(D.m_vertex_to_hit) ELSE @,
     !.end_pos = IF NewCandidate(D, answer.end_pos, answer.len2)
                 THEN D.m_current_vert_pos ELSE @,
     !.end_Dir = IF NewCandidate(D, answer.end_pos, answer.len2)
                 THEN current_vert_Dir(D) ELSE @,
     !.visited = Append(@, D.m_current_vert_pos),
     !.pc = IF norm(D.cf_offset) <= answer.len2 + answer.threshold
            THEN "do" ELSE "return",
     !.ret = IF norm(D.cf_offset) <= answer.len2 + answer.threshold
             THEN <<>>
             ELSE <<IF HitsRelevant(D, answer.len2)
                    THEN VertexOf(D.m_vertex_to_hit) ELSE answer.return_vertex>>]

LeftAdvance ==
  /\ answer.fn = "SweepNextLeft" /\ answer.pc = "do"
  /\ query' = advance(query)
  /\ answer' = LeftAdvanced(advance(query))
  /\ UNCHANGED surfaceVars

\* NewFollowDir up to its loop.
FollowEnter ==
  /\ answer.fn = "NewFollowDir" /\ answer.pc = "call"
  /\ query' = DMap(answer.strt)
  /\ answer' = [answer EXCEPT !.pc = "while"]
  /\ UNCHANGED surfaceVars

\* What the loop has met on the ray in a round: nothing, or the vertex the
\* map is going to hit.
Met(D) == IF D.m_going_to_hit THEN <<D.m_vertex_to_hit>> ELSE <<>>

\* A loop that goes on until the face offset is beyond len2 + 1.
FollowedFurther(D) ==
  IF norm(D.cf_offset) < answer.len2 + 1
  THEN IF HitsRelevant(D, answer.len2)
       THEN [answer EXCEPT !.pc = "return", !.ret = <<TRUE>>,
                           !.end_Dir = D.m_vertex_to_hit, !.met = @ \o Met(D)]
       ELSE [answer EXCEPT !.count = @ + 1, !.met = @ \o Met(D)]
  ELSE [answer EXCEPT !.pc = "return", !.ret = <<FALSE>>]

\* One test of the condition of the while loop of NewFollowDir, and the
\* round that follows it.
Followed(D) ==
  IF norm(D.cf_offset) < answer.len2
  THEN IF HitsRelevant(D, answer.len2)
       THEN [answer EXCEPT !.pc = "return", !.ret = <<TRUE>>,
                           !.end_Dir = D.m_vertex_to_hit, !.met = @ \o Met(D)]
       ELSE [answer EXCEPT !.count = @ + 1, !.met = @ \o Met(D)]
  ELSE [answer EXCEPT !.pc = "return", !.ret = <<FALSE>>]

FollowStep ==
  /\ answer.fn = "NewFollowDir" /\ answer.pc = "while"
  /\ answer' = Followed(query)
  /\ query' = IF answer'.pc = "while" THEN advance(query) ELSE query
  /\ UNCHANGED surfaceVars

NextFollow ==
  \/ LeftEnter
  \/ LeftAdvance
  \/ FollowEnter
  \/ FollowStep

\* The loops are not stopped from outside: a call that has not returned takes
\* its next step. This is weak fairness of NextFollow, which is enabled
\* exactly as long as the call has not returned.
FollowGoesOn == []<>(answer.pc = "return") \/ []<><<NextFollow>>_vars

SpecFollow == InitFollow /\ [][NextFollow]_vars /\ FollowGoesOn

----------------------------------------------------------------------------
(* SweepNew: the sweep around a vertex *)

\* Largest depth of a sweep, and largest goal angle in half turns.
MaxDepth == 2

MaxGoal == 2

\* The integer part of the square root.
isqrt(n) == CHOOSE k \in 0 .. n : k * k <= n /\ n < (k + 1) * (k + 1)

\* The square of MaxEdge()->len().
LongestSquared ==
  CHOOSE m \in {norm(vectors[e]) : e \in DOMAIN vectors} :
    \A e \in DOMAIN vectors : norm(vectors[e]) <= m

\* threshold = 2*(2*depth*longest + longest*longest + 1), rounded down: the
\* squared norms it is compared with are integers.
Threshold(depth) ==
  2 * LongestSquared + 2 + isqrt(16 * depth * depth * LongestSquared)

\* The k-th edge counterclockwise from e at its vertex.
RECURSIVE Around(_, _)
Around(e, k) == IF k = 0 THEN e ELSE vertices[Around(e, k - 1)]

\* Dir::RotateCCwToVec(w): the direction of w at the vertex of d, in the
\* first sector counterclockwise from d that holds w.
RotateCCwToVec(d, w) ==
  [ep |-> Around(d.ep,
                 CHOOSE k \in 0 .. Cardinality(VertexSource(vertices, d.ep)) :
                   /\ inSector(w, vectors[Around(d.ep, k)],
                               vectors[vertices[Around(d.ep, k)]])
                   /\ k = 0 => Cross(d.vec, w) >= 0
                   /\ \A j \in 0 .. k - 1 :
                        ~(/\ inSector(w, vectors[Around(d.ep, j)],
                                      vectors[vertices[Around(d.ep, j)]])
                          /\ j = 0 => Cross(d.vec, w) >= 0)),
   vec |-> w]

\* TotalAngle, kept exactly: the half turns completed since the start
\* direction, the direction reached, and whether the angle is a whole number
\* of half turns.
NoAngle == [half |-> 0, exact |-> TRUE]

\* The direction that is T.half half turns from the start direction.
HalfTurned(T, start) == IF T.half % 2 = 0 THEN start ELSE Neg(start)

\* TotalAngle += angle(old_dir.vec, w), for w less than a half turn
\* counterclockwise from old_dir.vec.
AngleAdded(T, start, w) ==
  IF Cross(HalfTurned(T, start), w) > 0
  THEN [half |-> T.half, exact |-> FALSE]
  ELSE [half |-> T.half + 1, exact |-> Cross(HalfTurned(T, start), w) = 0]

\* The outcomes of TotalAngle < GoalTotalAngle: the sum of the rounded angles
\* may fall on either side of a goal that it meets exactly.
BelowGoal(T, goal) ==
  IF T.half = goal /\ T.exact THEN BOOLEAN ELSE {T.half < goal}

\* The locals of SweepNew(depth, start_dir, GoalTotalAngle).
Swept(depth, start_dir, goal) ==
  [pc |-> "while", depth |-> depth, goal |-> goal, start |-> start_dir.vec,
   old_dir |-> start_dir, new_dir |-> NoDir, c |-> NULL,
   TotalAngle |-> NoAngle, below |-> TRUE,
   n_pending |-> 0, pending_vec |-> [i \in 0 .. 1 |-> Zero],
   investigated_last |-> FALSE, count_same |-> 0, i |-> 0, rounds |-> 0,
   appended |-> <<>>]

Idle == Called("none", NoDir, 0, 0)

newVars == <<status, input, faces, vertices, vectors, initial, pre, nflips,
             hidden, original, vertical, last>>

InitSweepNew ==
  \E S \in SweepSurfaces :
    /\ status = "sweep"
    /\ faces = FacesFromCycles(S.n, S.cycles)
    /\ vertices = VerticesFromFaces(faces)
    /\ vectors = HalfEdgeMapOf(S.n, S.vectors)
    /\ \E R \in RelevantSets(vertices) :
         input = [head_offset |-> HeadOffsets(faces, vectors, FirstEdgesAt(faces, 0)),
                  tail_offset |-> TailOffsets(faces, vectors, FirstEdgesAt(faces, 0)),
                  relevant |-> R]
    /\ initial = <<>> /\ pre = <<>> /\ nflips = 0
    /\ hidden = <<>> /\ original = <<>> /\ vertical = Zero /\ last = <<>>
    /\ query = NoDMap
    /\ answer = Idle
    /\ \E depth \in 1 .. MaxDepth : \E start_dir \in Dirs : \E goal \in 1 .. MaxGoal :
         run = Swept(depth, start_dir, goal)

\* pending_vec[n_pending++] = w: a write beyond the two elements of
\* pending_vec is undefined.
Pending(F, w, which) ==
  IF F.n_pending \in 0 .. 1
  THEN [F EXCEPT !.pending_vec[F.n_pending] = w,
                 !.n_pending = @ + 1,
                 !.appended = Append(@, which)]
  ELSE [F EXCEPT !.pc = "undefined"]

\* while (TotalAngle < GoalTotalAngle): call SweepNextLeft, or return.
NewTest ==
  /\ run.pc = "while"
  /\ IF run.below
     THEN /\ run' = [run EXCEPT !.pc = "called"]
          /\ answer' = Called("SweepNextLeft", run.old_dir,
                              run.depth * run.depth, Threshold(run.depth))
     ELSE /\ run' = [run EXCEPT !.pc = "return"]
          /\ answer' = answer
  /\ UNCHANGED <<newVars, query>>

\* The old direction is pending when SweepNextLeft saw a vertex on it, unless
\* the last round has investigated it.
OldPending(F, c, new_dir) ==
  IF c # NULL /\ ~F.investigated_last /\ norm(F.old_dir.vec) < F.depth * F.depth
  THEN [Pending(F, F.old_dir.vec, "old") EXCEPT
          !.count_same = IF c = VertexOf(F.old_dir) THEN @ + 1 ELSE @]
  ELSE F

NewOld ==
  /\ run.pc = "called" /\ answer.pc = "return"
  /\ run' = [OldPending([run EXCEPT !.c = answer.ret[1], !.new_dir = answer.end_Dir,
                                    !.appended = <<>>],
                        answer.ret[1], answer.end_Dir)
               EXCEPT !.pc = IF @ = "undefined" THEN @ ELSE "angle"]
  /\ answer' = Idle
  /\ UNCHANGED <<newVars, query>>

\* The new direction is pending when its vertex is relevant and within the
\* depth, and the goal is not reached.
NewPending(F, below) ==
  IF relevant(VertexOf(F.new_dir)) /\ below /\ norm(F.new_dir.vec) < F.depth * F.depth
  THEN [Pending(F, Neg(F.new_dir.vec), "new") EXCEPT
          !.investigated_last = TRUE,
          !.count_same = IF VertexOf(F.new_dir) = VertexOf(F.old_dir) THEN @ + 1 ELSE @]
  ELSE [F EXCEPT !.investigated_last = FALSE]

NewNew ==
  /\ run.pc = "angle"
  /\ \E below \in BelowGoal(AngleAdded(run.TotalAngle, run.start, Neg(run.new_dir.vec)),
                            run.goal) :
       run' = [NewPending([run EXCEPT
                             !.TotalAngle = AngleAdded(@, run.start, Neg(run.new_dir.vec)),
                             !.below = below],
                          below)
                 EXCEPT !.pc = IF @ = "undefined" THEN @ ELSE "for", !.i = 0]
  /\ UNCHANGED <<newVars, query, answer>>

\* What InvestigateVec and the rest of the body of the for loop come to: the
\* vector is rejected as too close, nothing is found, a configuration is
\* counted, or the program exits after drawing it.
Outcomes == {"too close", "none", "counted", "exit"}

NewInvestigate ==
  /\ run.pc = "for" /\ run.i < run.n_pending
  /\ \E o \in Outcomes :
       run' = IF o = "exit" THEN [run EXCEPT !.pc = "exit"]
              ELSE [run EXCEPT !.i = @ + 1]
  /\ UNCHANGED <<newVars, query, answer>>

\* The end of a round that leaves the pending directions in pending_vec.
RotatedOnly(F) ==
  [F EXCEPT !.old_dir = RotateCCwToVec(@, Neg(F.new_dir.vec)),
            !.rounds = @ + 1,
            !.pc = "while"]

\* The end of a round: n_pending = 0 and old_dir turns to the new direction.
Rotated(F) ==
  [F EXCEPT !.n_pending = 0,
            !.old_dir = RotateCCwToVec(@, Neg(F.new_dir.vec)),
            !.rounds = @ + 1,
            !.pc = "while"]

NewRotate ==
  /\ run.pc = "for" /\ run.i >= run.n_pending
  /\ run' = Rotated(run)
  /\ UNCHANGED <<newVars, query, answer>>

NextSweepNew ==
  \/ NewTest
  \/ LeftEnter
  \/ LeftAdvance
  \/ NewOld
  \/ NewNew
  \/ NewInvestigate
  \/ NewRotate

SpecSweepNew == InitSweepNew /\ [][NextSweepNew]_vars

----------------------------------------------------------------------------
(* Properties of the flat triangulation *)

RECURSIVE SumOver(_, _)
SumOver(v, S) ==
  IF S = {} THEN Zero
  ELSE LET x == CHOOSE x \in S : TRUE IN Add(v[x], SumOver(v, S \ {x}))

Flipped == status = "ok" /\ pre.e # 0

\* C5: in every flat triangulation reached from a valid construction by
\* flips, the vectors of every face (a, b, c) sum to zero.
C5_FaceClosure ==
  status = "ok" =>
    \A e \in DOMAIN faces :
      /\ Cardinality(FaceOf(faces, e)) = 3
      /\ SumOver(vectors, FaceOf(faces, e)) = Zero

C5_Witness ==
  /\ status = "ok" /\ nflips >= 3
  /\ \E e \in DOMAIN faces : vectors[e] # initial.vectors[e]

\* C6 as stated: after flipping a half-edge twice in a row the vectors store
\* equals the one before the two flips.
C6_FlipTwiceRestores == (status = "ok" /\ run.n = 2) => vectors = run.vectors

\* C6 amended: two flips of e negate vectors[e] and vectors[-e] and leave every
\* other vector as it was; four flips of e restore the vectors and both
\* permutations; after a flip of e the precondition of flipping e again holds.
C6_FlipTwiceNegates ==
  /\ (status = "ok" /\ run.n >= 1) =>
       /\ Flippable(faces, run.e)
       /\ FaceClosed(faces, vectors, run.e) /\ FaceClosed(faces, vectors, 0 - run.e)
  /\ (status = "ok" /\ run.n = 2) =>
       /\ vectors[run.e] = Neg(run.vectors[run.e])
       /\ vectors[0 - run.e] = Neg(run.vectors[0 - run.e])
       /\ \A x \in DOMAIN vectors \ {run.e, 0 - run.e} : vectors[x] = run.vectors[x]
  /\ (status = "ok" /\ run.n = 4) =>
       /\ vectors = run.vectors
       /\ faces = run.faces
       /\ vertices = run.vertices

C6_Witness ==
  /\ status = "ok" /\ run.n = 4
  /\ vectors[run.e] # Zero
  /\ vectors = run.vectors

\* C7 as stated: whenever both permutations are back at their initial values
\* after some flips, every vector is back at its initial value.
C7_CombinatoricsRestoreVectors ==
  (status = "ok" /\ faces = initial.faces /\ vertices = initial.vertices)
    => vectors = initial.vectors

\* C7 amended: whenever both permutations are back at their initial values
\* after some flips, every face closes, the store is odd and the total area is
\* the initial one; the vectors themselves may differ (all negated, say).
C7_CombinatoricsRestoreArea ==
  (status = "ok" /\ faces = initial.faces /\ vertices = initial.vertices)
    => /\ Area6(faces, vectors) = Area6(initial.faces, initial.vectors)
       /\ \A e \in DOMAIN faces : FaceClosed(faces, vectors, e)
       /\ \A e \in DOMAIN faces : vectors[0 - e] = Neg(vectors[e])

C7_Witness ==
  /\ status = "ok" /\ nflips > 0
  /\ faces = initial.faces /\ vertices = initial.vertices
  /\ vectors # initial.vectors

\* C8: a flip of e with faces (a, b, e) and (c, d, -e) yields exactly the faces
\* (a, -e, d) and (c, e, b), changes no other face, and both permutations stay
\* permutations with every face a triangle.
C8_FlipFaces ==
  Flipped =>
    LET e == pre.e
        a == pre.faces[e]
        b == pre.faces[a]
        c == pre.faces[0 - e]
        d == pre.faces[c]
        h == handleFlip(faces, e)
    IN  /\ h = [a |-> a, b |-> b, c |-> c, d |-> d]
        /\ faces[a] = 0 - e /\ faces[0 - e] = d /\ faces[d] = a
        /\ faces[c] = e /\ faces[e] = b /\ faces[b] = c
        /\ \A x \in DOMAIN faces \ {a, b, c, d, e, 0 - e} : faces[x] = pre.faces[x]
        /\ IsPermutation(faces) /\ IsPermutation(vertices)
        /\ DOMAIN faces = DOMAIN pre.faces /\ DOMAIN vertices = DOMAIN faces
        /\ \A x \in DOMAIN faces : Cardinality(FaceOf(faces, x)) = 3
        /\ \A x \in DOMAIN faces : vertices[x] = 0 - previousInFace(faces, x)

C8_Witness ==
  /\ Flipped
  /\ \E x \in DOMAIN faces :
       /\ FaceOf(faces, x) \cap {pre.e, 0 - pre.e} = {}
       /\ FaceOf(faces, x) = FaceOf(pre.faces, x)
  /\ faces # pre.faces

\* C9: after a flat flip of e, vectors[e] = vectors[-next(e)] +
\* vectors[nextAtVertex(e)] in the new permutations, vectors[-e] = -vectors[e],
\* no other vector changed; flipping 3 on the unit square gives (1,-1) or (-1,1).
C9_FlipVector ==
  Flipped =>
    LET e == pre.e
    IN  /\ vectors[e] = Add(vectors[0 - faces[e]], vectors[vertices[e]])
        /\ vectors[0 - e] = Neg(vectors[e])
        /\ \A x \in DOMAIN vectors \ {e, 0 - e} : vectors[x] = pre.vectors[x]
        /\ (input = Square.vectors /\ nflips = 1 /\ e \in {3, -3})
             => vectors[3] \in {<<1, -1>>, <<-1, 1>>}

C9_Witness ==
  /\ Flipped /\ input = Square.vectors /\ nflips = 1 /\ pre.e = 3
  /\ vectors[3] = <<1, -1>>

\* C10: the constructor fails with InvalidArgument exactly when the vectors of
\* some face do not sum to zero.
C10_ConstructorValidates ==
  status # "new" =>
    (status = "InvalidArgument" <=>
       \E e \in DOMAIN faces : SumOver(vectors, FaceOf(faces, e)) # Zero)

C10_Witness ==
  /\ status = "InvalidArgument"
  /\ \E e \in DOMAIN faces : SumOver(vectors, FaceOf(faces, e))[1] = 0
                             /\ SumOver(vectors, FaceOf(faces, e))[2] # 0

----------------------------------------------------------------------------
(* Properties of the collapsed flat triangulation *)

RECURSIVE Reverse(_)
Reverse(q) == IF q = <<>> THEN <<>> ELSE Reverse(Tail(q)) \o <<Head(q)>>

Negated(q) == [i \in 1..Len(q) |-> Neg(q[i])]

Collapsed == last.op \in {"collapse", "flip+collapse"}

IsTriangle(f, e) == f[f[f[e]]] = e /\ f[e] # e /\ f[f[e]] # e

\* C1 as stated: in every state reached by make() and flips, hidden[-e] is
\* the reverse of hidden[e] with every connection negated.
C1_HiddenMirrored ==
  \A e \in DOMAIN faces : hidden[0 - e] = Reverse(Negated(hidden[e]))

\* C1 (amended): in every state reached by make() and flips, every hidden
\* connection is parallel to the vertical, and for every half-edge e the
\* connections of hidden[e] and hidden[-e] together sum to
\* vectors[e] + vectors[-e]; the two lists need not mirror each other.
C1_HiddenAccountsForVectors ==
  \A e \in DOMAIN faces :
    /\ \A i \in 1..Len(hidden[e]) : Cross(vertical, hidden[e][i]) = 0
    /\ Add(vectors[e], vectors[0 - e])
         = Add(SumSeq(hidden[e]), SumSeq(hidden[0 - e]))

\* A collapse of a gadget with eight distinct outer half-edges has left a
\* connection in hidden[e] with nothing in hidden[-e].
C1_Witness ==
  /\ status \in {"making", "collapsed"}
  /\ Collapsed /\ last.kind = "distinct"
  /\ \E e \in DOMAIN faces :
       /\ hidden[e] # <<>> /\ hidden[0 - e] = <<>>
       /\ Add(vectors[e], vectors[0 - e]) # Zero

\* C2: after make() and after every flip or collapse, the area of the
\* non-degenerate faces plus the contributions of the hidden connections
\* equals the area of the original uncollapsed surface.
C2_AreaInvariant ==
  CollapsedArea(faces, vectors, hidden) = OriginalArea(original)

\* A flip followed by a collapse has left triangles next to a collapsed face,
\* with connections hidden.
C2_Witness ==
  /\ status = "collapsed"
  /\ last.op = "flip+collapse"
  /\ \E e \in DOMAIN faces : hidden[e] # <<>>
  /\ \E e \in DOMAIN faces : IsTriangle(faces, e)
  /\ \E e \in DOMAIN faces : faces[e] = 0 - e
  /\ OriginalArea(original) > 0

\* C3: after any flip or collapse every non-collapsed face closes: the
\* vectors of its three half-edges sum to zero in both components.
C3_FacesClose ==
  \A e \in DOMAIN faces :
    faces[e] # 0 - e =>
      /\ IsTriangle(faces, e)
      /\ Add(Add(vectors[e], vectors[faces[e]]), vectors[faces[faces[e]]]) = Zero

\* A half-edge whose two sides carried different vectors has been flipped,
\* and a triangle still has a side whose two half-edges carry different vectors.
C3_Witness ==
  /\ status = "collapsed"
  /\ last.op = "flip"
  /\ pre.vectors[0 - last.e] # Neg(pre.vectors[last.e])
  /\ \E e \in DOMAIN faces :
       /\ IsTriangle(faces, e)
       /\ vectors[0 - e] # Neg(vectors[e])

\* C4 as stated: after the collapse update and after any sequence of flips
\* and collapses, vectors[-e] = -vectors[e] for every half-edge.
C4_Antisymmetric ==
  \A e \in DOMAIN faces : vectors[0 - e] = Neg(vectors[e])

\* C4 (amended): vectors[-e] = -vectors[e] holds for every half-edge e with
\* hidden[e] and hidden[-e] both empty, and for the pair of half-edges a
\* collapse squashes a side of its gadget into (a when a = -c and b = -d or
\* when a = -d; b when b = -c).
C4_AntisymmetricWhereNothingHidden ==
  /\ \A e \in DOMAIN faces :
       (hidden[e] = <<>> /\ hidden[0 - e] = <<>>) =>
         vectors[0 - e] = Neg(vectors[e])
  /\ (Collapsed /\ (last.kind = "gadget" \/ last.a = 0 - last.d)) =>
       /\ last.a \in DOMAIN faces
       /\ vectors[0 - last.a] = Neg(vectors[last.a])
  /\ (Collapsed /\ last.kind = "sides" /\ last.b = 0 - last.c) =>
       /\ last.b \in DOMAIN faces
       /\ vectors[0 - last.b] = Neg(vectors[last.b])

\* A collapse has squashed its whole gadget into one pair of half-edges that
\* hides connections.
C4_Witness ==
  /\ status \in {"making", "collapsed"}
  /\ Collapsed /\ last.kind = "gadget"
  /\ hidden[last.a] # <<>>
  /\ vectors[0 - last.a] = Neg(vectors[last.a])

\* C11: flip(e) on a collapsed surface goes through only when e is large and
\* both e and -e lie in triangles; any other e is answered by InvalidArgument
\* and leaves permutations, vectors and hidden lists as they were.
flipMutates ==
  \/ faces' # faces \/ vertices' # vertices \/ vectors' # vectors \/ hidden' # hidden

LargeBetweenTriangles(e) ==
  /\ Dot(vertical, vectors[e]) > 0
  /\ Cardinality(FaceOf(faces, e)) = 3 /\ Cardinality(FaceOf(faces, 0 - e)) = 3

C11_FlipAdmission ==
  [][status = "collapsed" =>
       /\ status' # "NotATriangle"
       /\ last'.op = "InvalidArgument" =>
            /\ ~LargeBetweenTriangles(last'.e)
            /\ ~flipMutates
            /\ status' = status
       /\ flipMutates =>
            /\ last'.op \in {"flip", "flip+collapse"}
            /\ LargeBetweenTriangles(pre'.arg)]_vars

\* A flip was refused on a surface with hidden connections and a triangle
\* left: the half-edge is large but bounds a collapsed face.
C11_Witness ==
  /\ status = "collapsed" /\ last.op = "InvalidArgument"
  /\ \E x \in DOMAIN hidden : hidden[x] # <<>>
  /\ \E x \in DOMAIN faces : faces[faces[faces[x]]] = x
  /\ large(vertical, vectors, last.e)
  /\ ~(faces[faces[faces[last.e]]] = last.e)
\* C12: once make() has returned, and after every flip that went through, no
\* half-edge of the collapsed surface is parallel to the vertical.
C12_NoVerticalHalfEdge ==
  status = "collapsed" =>
    \A e \in DOMAIN vectors : Cross(vertical, vectors[e]) # 0

\* A flip has turned a half-edge into the vertical and the collapse that
\* follows has removed it; half-edges are left.
C12_Witness ==
  /\ status = "collapsed" /\ last.op = "flip+collapse"
  /\ Cross(vertical, Add(pre.vectors[pre.faces[pre.e]],
                         pre.vectors[pre.faces[pre.faces[0 - pre.e]]])) = 0
  /\ DOMAIN vectors # {}
\* C13: on the torus 1 = (1,0), 2 = (0,1), 3 = (-1,-1) with vertical (0,1),
\* make() collapses half-edge 2; after it hidden[-1] holds the collapsed
\* connection (0,1) and check() finds the area of the uncollapsed surface.
OnSquare ==
  /\ input = Square.vectors
  /\ original.faces = FacesFromCycles(Square.n, Square.cycles)
  /\ vertical = <<0, 1>>

C13_SquareCollapsesTwo ==
  OnSquare =>
    /\ status \in {"making", "collapsed"}
    /\ last.op = "collapse" => last.e = 2
    /\ status = "collapsed" =>
         /\ 2 \notin DOMAIN faces /\ -1 \in DOMAIN faces
         /\ \E i \in DOMAIN hidden[-1] : hidden[-1][i] = <<0, 1>>
         /\ CollapsedArea(faces, vectors, hidden) = Area6(original.faces, original.vectors)
         /\ Area6(original.faces, original.vectors) = 6

\* make() has returned on that torus, its last step the collapse of 2.
C13_Witness ==
  OnSquare /\ status = "collapsed" /\ last.op = "collapse" /\ last.e = 2
\* C14: the beforeCollapse handlers have read the faces (a -collapse d) and
\* (c collapse b) as they were before the collapse took the edge away, and
\* the afterFlip handlers have read the faces (a -flip d) and (c flip b) the
\* flip has made.
Cycle(f, x, y, z) ==
  /\ {x, y, z} \subseteq DOMAIN f
  /\ f[x] = y /\ f[y] = z /\ f[z] = x

FacesAfterFlip == IF last.op = "flip" THEN faces ELSE FlipFaces(pre.faces, pre.e)

FacesBeforeCollapse ==
  IF last.op = "collapse" THEN pre.faces ELSE FlipFaces(pre.faces, pre.e)

C14_HandlersReadFaces ==
  \A i \in DOMAIN last.handlers :
    /\ last.handlers[i].signal = "afterFlip" =>
         /\ last.op \in {"flip", "flip+collapse"}
         /\ last.handlers[i].e = pre.e
         /\ Cycle(FacesAfterFlip, last.handlers[i].a, 0 - pre.e, last.handlers[i].d)
         /\ Cycle(FacesAfterFlip, last.handlers[i].c, pre.e, last.handlers[i].b)
         /\ ~Cycle(pre.faces, last.handlers[i].c, pre.e, last.handlers[i].b)
    /\ last.handlers[i].signal = "beforeCollapse" =>
         /\ last.op \in {"collapse", "flip+collapse"}
         /\ last.handlers[i].e = last.e
         /\ Cycle(FacesBeforeCollapse, last.handlers[i].a, 0 - last.e, last.handlers[i].d)
         /\ Cycle(FacesBeforeCollapse, last.handlers[i].c, last.e, last.handlers[i].b)
         /\ last.e \notin DOMAIN faces

\* A flip followed by a collapse: handlers of both signals have run, and the
\* flip has changed the faces the collapse handlers read.
C14_Witness ==
  /\ status = "collapsed" /\ last.op = "flip+collapse"
  /\ \E i, j \in DOMAIN last.handlers :
       /\ last.handlers[i].signal = "afterFlip"
       /\ last.handlers[j].signal = "beforeCollapse"
  /\ FacesBeforeCollapse # pre.faces
\* C15: when a flip or a collapse has returned, the handler of the hidden
\* lists and then the handler of the vectors have run for each signal of the
\* call, once each and in this order, the order of their registration.
HandlerRuns ==
  [i \in DOMAIN last.handlers |-> <<last.handlers[i].store, last.handlers[i].signal>>]

C16_OriginalUntouched ==
  /\ uncollapsed(original) = initial
  /\ initial.vectors = HalfEdgeMapOf(Len(input), input)
  /\ IsPermutation(uncollapsed(original).faces)
  /\ DOMAIN uncollapsed(original).faces = HalfEdgesOf(Len(input))

\* Collapses in make() and two flips at least, the last one followed by a
\* collapse, have left a surface with fewer half-edges than the original.
C16_Witness ==
  /\ status = "collapsed" /\ nflips >= 2 /\ last.op = "flip+collapse"
  /\ DOMAIN faces # DOMAIN original.faces
  /\ \E x \in DOMAIN faces : vectors[x] # original.vectors[x]
----------------------------------------------------------------------------
(* Properties of the SaddleConnections queries *)

\* C17: bound, source, sector(halfEdge) and sector(begin, end) return a query
\* of their own and leave the search radius and the sectors of the receiver
\* as they were.
C17_QueriesLeaveReceiver ==
  [][(answer'.op \in {"bound", "source", "sector", "sectorVectors"} /\ answer' # answer) =>
       /\ query'.searchRadius = query.searchRadius
       /\ query'.sectors = query.sectors
       /\ answer'.fresh]_vars

\* A bounded query was narrowed to fewer, refined sectors; the query returned
\* differs from the receiver.
C17_Witness ==
  /\ answer.op = "sectorVectors" /\ answer.ok
  /\ query.searchRadius # 0
  /\ answer.ret.sectors # query.sectors
  /\ answer.ret.searchRadius = query.searchRadius
\* The directions sectors are probed with.
Rays == {v \in (-2 .. 2) \X (-2 .. 2) : v # Zero}

\* The direction v lies in the sector S: between the half-edge of S and the
\* next one at the vertex, and between the boundaries of S if it has any.
LiesIn(S, v) ==
  /\ inSector(v, vectors[S.source], vectors[vertices[S.source]])
  /\ S.sector = <<>> \/ inSector(v, S.sector[1], S.sector[2])

LiesInSome(sectors, v) == \E j \in DOMAIN sectors : LiesIn(sectors[j], v)

RefinesTo(S, sectors, sectorBegin, sectorEnd) ==
  /\ Len(sectors) <= 2
  /\ \A j \in DOMAIN sectors : sectors[j].source = S.source
  /\ \A v \in Rays :
       LiesInSome(sectors, v) <=> (LiesIn(S, v) /\ inSector(v, sectorBegin, sectorEnd))

\* C18: for every sector S of a query and all begin and end, refine() returns
\* at most two sectors at the half-edge of S, and a direction lies in one of
\* them exactly when it lies in S and in [begin, end).
C18_RefineIntersects ==
  answer.op = "sectorVectors" =>
    \A i \in DOMAIN query.sectors :
      /\ refineAsserts(vectors, vertices, query.sectors[i])
      /\ RefinesTo(query.sectors[i],
                   refine(vectors, vertices, query.sectors[i],
                          answer.arg.begin, answer.arg.end),
                   answer.arg.begin, answer.arg.end)

\* C19: narrowing the query returned by sector(u, w) with sector(u, w) once
\* more returns a query with the same sectors.
C19_SectorIdempotent ==
  (answer.op = "sectorVectors" /\ answer.ok) =>
    /\ \A i \in DOMAIN answer.ret.sectors :
         refineAsserts(vectors, vertices, answer.ret.sectors[i])
    /\ sectorVectors(answer.ret, vectors, vertices,
                     answer.arg.begin, answer.arg.end).cells[2].sectors
         = answer.ret.sectors
\* The connections a query may select: a half-edge and a direction in the
\* sector that starts at it.
Candidates ==
  {x \in [source : DOMAIN vectors, vector : Rays] :
     inSector(x.vector, vectors[x.source], vectors[vertices[x.source]])}

\* The iteration over the query q gets to the connection x.
Selected(q, x) ==
  \E i \in DOMAIN q.sectors :
    contains(vectors, vertices, q.sectors[i], x.source, x.vector)

SameRay(u, v) == Cross(u, v) = 0 /\ Dot(u, v) > 0

Narrowed(op) == answer.op = op /\ answer.ok

\* C20 as stated: after sector(begin, end) a connection on begin is selected,
\* a connection on end is not, and neither is a connection pointing opposite
\* to begin.
C20_TieBreaks ==
  Narrowed("sectorVectors") =>
    \A x \in Candidates :
      Selected(query, x) =>
        /\ SameRay(x.vector, answer.arg.begin) => Selected(answer.ret, x)
        /\ SameRay(x.vector, answer.arg.end) => ~Selected(answer.ret, x)
        /\ SameRay(x.vector, Neg(answer.arg.begin)) => ~Selected(answer.ret, x)

\* C20 amended: a connection on begin is selected; a connection on end is
\* selected only if end points the way begin does (for two connections, only
\* if end is begin); a connection pointing opposite to the vector begin is
\* selected only if end lies clockwise from begin.
C20_TieBreaksOfHalfOpenSectors ==
  /\ Narrowed("sectorVectors") =>
       \A x \in Candidates :
         Selected(query, x) =>
           /\ SameRay(x.vector, answer.arg.begin) => Selected(answer.ret, x)
           /\ SameRay(x.vector, answer.arg.end) =>
                (Selected(answer.ret, x) <=> SameRay(answer.arg.begin, answer.arg.end))
           /\ SameRay(x.vector, Neg(answer.arg.begin)) =>
                (Selected(answer.ret, x)
                   <=> ccw(answer.arg.begin, answer.arg.end) = "CLOCKWISE")
  /\ Narrowed("sectorConnections") =>
       \A x \in Candidates :
         Selected(query, x) =>
           /\ (x.source = answer.arg.from /\ SameRay(x.vector, answer.arg.begin))
                => Selected(answer.ret, x)
           /\ (x.source = answer.arg.to /\ SameRay(x.vector, answer.arg.end))
                => (Selected(answer.ret, x)
                     <=> (answer.arg.from = answer.arg.to
                            /\ SameRay(answer.arg.begin, answer.arg.end)))

\* A query narrowed twice, the second time by sector(begin, end) with end
\* clockwise from begin: the connection on begin and the one opposite to it
\* are selected, the connection on end was selected before and is no more.
C20_Witness ==
  /\ Narrowed("sectorVectors") /\ answer.n = 2
  /\ ccw(answer.arg.begin, answer.arg.end) = "CLOCKWISE"
  /\ \E x, y, z \in Candidates :
       /\ SameRay(x.vector, answer.arg.begin) /\ Selected(answer.ret, x)
       /\ SameRay(y.vector, answer.arg.end)
       /\ Selected(query, y) /\ ~Selected(answer.ret, y)
       /\ SameRay(z.vector, Neg(answer.arg.begin)) /\ Selected(answer.ret, z)

(* Properties of the flip handlers of the collapsed flat triangulation *)

\* A step of flip(e) that got past its CHECK_ARGUMENTs and flipped pre'.e.
flipStep == status = "collapsed" /\ nflips' = nflips + 1

\* What the afterFlip handlers leave when flip(pre'.e) is taken from the
\* current state.
flipHandled ==
  afterFlip(Stores, FlipFaces(faces, pre'.e), Dispatching(vectors, hidden, <<>>), pre'.e)

\* handleFlip on the faces flipped at pre'.e.
flipGadget == handleFlip(FlipFaces(faces, pre'.e), pre'.e)

\* The assertion of updateAfterFlip and the assignments before it, read off
\* the vectors w the handlers leave for the gadget q of the flip of e.
FlipClosed(w, q, e) ==
  /\ w.ok
  /\ w.v[q.b] = Add(vectors[q.b], SumSeq(hidden[e]))
  /\ w.v[q.d] = Add(vectors[q.d], SumSeq(hidden[0 - e]))
  /\ w.v[e] = Add(w.v[q.d], w.v[q.a])
  /\ w.v[0 - e] = Add(w.v[q.b], w.v[q.c])
  /\ status' # "AssertionFailed"
  /\ last'.op = "flip" => vectors' = w.v

\* C28: for every admitted flip of a collapsed surface the assertion "face not
\* closed after flip" of the vectors handler holds: with b pulled over
\* hidden[flip], d pushed over hidden[-flip] and vectors[flip] set to
\* vectors[d] + vectors[a], vectors[-flip] equals vectors[b] + vectors[c].
C28_FlipClosesFace ==
  [][flipStep => \E w \in {flipHandled} : \E q \in {flipGadget} :
                   FlipClosed(w, q, pre'.e)]_vars

\* A flip has pulled b over the connections hidden in flip, and the face of
\* -flip closes.
C28_Witness ==
  /\ status = "collapsed" /\ last.op = "flip"
  /\ vectors[last.b] # pre.vectors[last.b]
  /\ vectors[0 - last.flipped] = Add(vectors[last.b], vectors[last.c])

\* The hidden lists w.h the handlers leave for the gadget q of the flip of e.
FlipSpliced(w, q, e) ==
  /\ w.h[e] = <<>>
  /\ w.h[0 - e] = <<>>
  /\ w.h[0 - q.b] = hidden[0 - q.b] \o hidden[e]
  /\ w.h[0 - q.d] = hidden[0 - q.d] \o hidden[0 - e]
  /\ \A x \in DOMAIN hidden \ {e, 0 - e, 0 - q.b, 0 - q.d} : w.h[x] = hidden[x]
  /\ last'.op = "flip" => hidden' = w.h

GadgetHalfEdges ==
  {last.a, last.b, last.c, last.d, 0 - last.a, 0 - last.b, 0 - last.c, 0 - last.d}

\* C30: the five cases of updateBeforeCollapse cover every collapse reached
\* from a valid surface: when none of a = -c, b = -d, a = -d, b = -c holds,
\* the half-edges a, b, c, d, -a, -b, -c, -d are pairwise distinct and the
\* assertion "Unhandled identification in gadget" holds.
C30_CollapseCasesExhaustive ==
  Collapsed =>
    /\ last.kind = "distinct" => Cardinality(GadgetHalfEdges) = 8
    /\ \/ last.a = 0 - last.c \/ last.b = 0 - last.d
       \/ last.a = 0 - last.d \/ last.b = 0 - last.c
       \/ /\ Cardinality(GadgetHalfEdges) = 8
          /\ last.kind = "distinct"
          /\ status # "AssertionFailed"

\* A collapse has gone through the last of the five cases.
C30_Witness ==
  /\ status = "collapsed" /\ Collapsed
  /\ last.kind = "distinct" /\ Cardinality(GadgetHalfEdges) = 8
  /\ last.a # 0 - last.c /\ last.b # 0 - last.d
  /\ last.a # 0 - last.d /\ last.b # 0 - last.c

----------------------------------------------------------------------------
(* Properties of Vector(T) *)

\* C25: for every non-zero vector v, v.inSector(v, v) and v.inSector(v, -v)
\* are true and v.inSector(-v, v) is false.
C25_InSectorOfItself ==
  answer.op = "inSector" =>
    /\ (answer.v = answer.u /\ answer.w = answer.u) => answer.ret[1]
    /\ (answer.v = answer.u /\ answer.w = Neg(answer.u)) => answer.ret[1]
    /\ (answer.v = Neg(answer.u) /\ answer.w = answer.u) => ~answer.ret[1]

\* v.inSector(-v, v) has been called on a vector off the axes and was false.
C25_Witness ==
  /\ answer.op = "inSector" /\ answer.u = <<1, 2>>
  /\ answer.v = Neg(answer.u) /\ answer.w = answer.u
  /\ answer.ret = <<FALSE>>

\* The vectors of the test "Slopes Compare Correctly", in its order.
Slopes ==
  <<<<0, -1>>, <<0, -2>>, <<1, -1>>, <<-1, 1>>, <<1, 0>>, <<-1, 0>>,
    <<1, 1>>, <<-1, -1>>, <<0, 1>>, <<0, 2>>>>

\* The index rule of the test: lt(x_i, x_j) exactly when i/2 < j/2, the
\* indices counted from 0.
IndexRule(x, y, lt) ==
  \A i, j \in DOMAIN Slopes :
    (Slopes[i] = x /\ Slopes[j] = y) => (lt <=> ((i - 1) \div 2 < (j - 1) \div 2))

\* C24: CompareSlope is a strict weak order on the non-zero vectors: it is
\* irreflexive, asymmetric and transitive, and being incomparable is
\* transitive; on the ten vectors of the test lt(x_i, x_j) holds exactly when
\* i/2 < j/2.
C24_StrictWeakOrder ==
  answer.op = "CompareSlope" =>
    /\ answer.u = answer.v => ~answer.ret[1]
    /\ ~(answer.ret[1] /\ answer.ret[2])
    /\ (answer.ret[1] /\ answer.ret[3]) => answer.ret[5]
    /\ (~answer.ret[1] /\ ~answer.ret[2] /\ ~answer.ret[3] /\ ~answer.ret[4])
         => (~answer.ret[5] /\ ~answer.ret[6])
    /\ IndexRule(answer.u, answer.v, answer.ret[1])

\* The comparator has ordered three vectors of the test list from three
\* different classes, the middle one given by the negative of a listed vector's
\* class mate.
C24_Witness ==
  /\ answer.op = "CompareSlope"
  /\ answer.u = <<0, -2>> /\ answer.v = <<-1, 1>> /\ answer.w = <<0, 2>>
  /\ answer.ret = <<TRUE, FALSE, TRUE, FALSE, TRUE, FALSE>>

----------------------------------------------------------------------------
(* Properties of the iteration over SaddleConnections *)

\* The query has been iterated to its end.
Iterated == answer.op = "iterate"

\* The surface is the unit square 1 = (1,0), 2 = (0,1), 3 = (-1,-1).
UnitSquare ==
  /\ Cardinality(DOMAIN vectors) = 6
  /\ vectors[1] = <<1, 0>> /\ vectors[2] = <<0, 1>> /\ vectors[3] = <<-1, -1>>

\* The query still holds the sector of every half-edge, as built.
Unrestricted ==
  /\ Len(query.sectors) = Cardinality(DOMAIN vectors)
  /\ \A i \in DOMAIN query.sectors :
       /\ query.sectors[i].sector = <<>>
       /\ query.sectors[i].source = IF i % 2 = 1 THEN (i + 1) \div 2 ELSE 0 - (i \div 2)

\* The straight segments of length^2 at most r from the vertex of the unit
\* square torus to the vertex, with no vertex in between.
SegmentsOfSquare(r) ==
  {w \in (0 - MaxBound .. MaxBound) \X (0 - MaxBound .. MaxBound) :
     /\ w # Zero
     /\ w[1] * w[1] + w[2] * w[2] <= r
     /\ ~\E k \in 2 .. MaxBound + 1 : Abs(w[1]) % k = 0 /\ Abs(w[2]) % k = 0}

\* The place in the builder's order of the sector a connection left through.
SectorIndex(x) == IF x.source > 0 THEN 2 * x.source - 1 ELSE 2 * (0 - x.source)

SlopeSet ==
  {i \in DOMAIN answer.emitted :
     \A j \in 1 .. i - 1 :
       \/ CompareSlope(answer.emitted[j].vector, answer.emitted[i].vector)
       \/ CompareSlope(answer.emitted[i].vector, answer.emitted[j].vector)}

EmittedVectors == {answer.emitted[i].vector : i \in DOMAIN answer.emitted}

SameLine(u, v) == Cross(u, v) = 0

\* C22 as stated: on the unit square bound(1) yields exactly three
\* connections, of the slopes of (1,0), (0,1) and (-1,-1), and a set keyed by
\* CompareSlope of the emitted vectors has size 3.
C22_ThreeConnections ==
  (Iterated /\ Unrestricted /\ UnitSquare /\ query.searchRadius = 1) =>
    /\ Len(answer.emitted) = 3
    /\ \A u \in {<<1, 0>>, <<0, 1>>, <<-1, -1>>} : \E w \in EmittedVectors : SameLine(u, w)
    /\ \A w \in EmittedVectors :
         \E u \in {<<1, 0>>, <<0, 1>>, <<-1, -1>>} : SameLine(u, w)
    /\ Cardinality(SlopeSet) = 3

\* C22 (amended): on the unit square bound(1) yields exactly four
\* connections, with the vectors (1,0), (0,1), (-1,0) and (0,-1); the diagonal
\* (-1,-1) is longer than 1 and is not emitted; a set keyed by CompareSlope of
\* the emitted vectors has size exactly 3, (1,0) and (-1,0) falling into one
\* class and (0,1) and (0,-1) into two.
C22_FourConnectionsThreeSlopes ==
  (Iterated /\ Unrestricted /\ UnitSquare /\ query.searchRadius = 1) =>
    /\ Len(answer.emitted) = 4
    /\ EmittedVectors = {<<1, 0>>, <<0, 1>>, <<-1, 0>>, <<0, -1>>}
    /\ Cardinality(SlopeSet) = 3
    /\ ~CompareSlope(<<1, 0>>, <<-1, 0>>) /\ ~CompareSlope(<<-1, 0>>, <<1, 0>>)
    /\ CompareSlope(<<0, -1>>, <<0, 1>>)

\* bound(1) has been iterated on the unit square.
C22_Witness ==
  /\ Iterated /\ Unrestricted /\ UnitSquare /\ query.searchRadius = 1
  /\ Len(answer.emitted) = 4 /\ Cardinality(SlopeSet) = 3

\* The query is SaddleConnections(surface) narrowed by sector((1,0), (0,1)),
\* with the search radius sqrt(2).
NarrowedToQuadrant ==
  /\ UnitSquare /\ query.searchRadius = 2
  /\ query.sectors = <<SectorBetween(1, <<1, 0>>, <<1, 1>>), Sector(0 - 3)>>

\* C23 as stated: on the unit square sector((1,0), (0,1)) within radius
\* sqrt(2) yields connections of the slope (1,1) only, none with the vector
\* (1,0) or (0,1).
C23_DiagonalOnly ==
  (Iterated /\ NarrowedToQuadrant) =>
    /\ \A w \in EmittedVectors : SameLine(w, <<1, 1>>)
    /\ <<1, 0>> \notin EmittedVectors /\ <<0, 1>> \notin EmittedVectors

\* C23 (amended): on the unit square sector((1,0), (0,1)) within radius
\* sqrt(2) yields exactly the connection (1,0), which lies on begin, and the
\* connection (1,1); no connection with the vector (0,1) is emitted.
C23_BeginAndDiagonal ==
  /\ (answer.op = "sectorVectors" /\ answer.ok /\ UnitSquare /\ Unrestricted
        /\ answer.arg.begin = <<1, 0>> /\ answer.arg.end = <<0, 1>>)
       => answer.ret.sectors = <<SectorBetween(1, <<1, 0>>, <<1, 1>>), Sector(0 - 3)>>
  /\ (Iterated /\ NarrowedToQuadrant) =>
       /\ answer.emitted = <<[source |-> 1, vector |-> <<1, 0>>],
                             [source |-> 0 - 3, vector |-> <<1, 1>>]>>
       /\ <<0, 1>> \notin EmittedVectors

\* The narrowed query has been iterated and has emitted two connections.
C23_Witness ==
  /\ Iterated /\ NarrowedToQuadrant /\ answer.n = 2
  /\ Len(answer.emitted) = 2

----------------------------------------------------------------------------
(* Properties of the developing map *)

\* A developing map has been constructed, and maybe advanced.
Developing == status = "sweep" /\ answer.op \in {"DMap", "advance"}

advanceStep == status = "sweep" /\ answer'.op = "advance"

\* C26: advance() adds head_offset(next edge) - tail_offset(pair(next edge))
\* to the face offset, makes pair(next edge) the current edge and recomputes
\* the cached values: the current vertex position is the new face offset plus
\* the head offset of the new current edge; the start direction is unchanged.
C26_AdvanceCrossesNextEdge ==
  [][advanceStep =>
       /\ query'.cf_offset =
            Add(query.cf_offset,
                Add(head_offset(query.m_next_edge),
                    Neg(tail_offset(pair_e(query.m_next_edge)))))
       /\ query'.c_edge = pair_e(query.m_next_edge)
       /\ query'.m_current_vert_pos = Add(query'.cf_offset, head_offset(query'.c_edge))
       /\ query'.m_next_candidate = Add(query'.cf_offset, tail_offset(next_e(query'.c_edge)))
       /\ query'.m_going_to_hit = aligned(query'.m_next_candidate, query.strt.vec)
       /\ query'.m_next_edge \in {next_e(query'.c_edge), next_e(next_e(query'.c_edge))}
       /\ query'.strt = query.strt]_vars

\* A map has been advanced twice, into a face whose offsets differ from those
\* of the face it left, and its current vertex is not at the face offset.
C26_Witness ==
  /\ Developing /\ answer.op = "advance" /\ answer.n = 2
  /\ query.cf_offset # Zero
  /\ head_offset(query.c_edge) # Zero
  /\ head_offset(query.c_edge) # tail_offset(query.c_edge)
  /\ query.m_current_vert_pos = Add(query.cf_offset, head_offset(query.c_edge))

\* C27 as stated: after the construction and after every advance()
\* start.vec.ccw(currentEdge.vec) != CLOCKWISE and
\* start.vec.ccw(-prev(currentEdge).vec) == CLOCKWISE.
C27_CrossedHeadFirst ==
  Developing =>
    /\ ccw(query.strt.vec, vectors[query.c_edge]) # "CLOCKWISE"
    /\ ccw(query.strt.vec, Neg(vectors[prev_edge(query.c_edge)])) = "CLOCKWISE"

\* The unfolded position of the tail of the current edge.
currentTailPos == Add(query.cf_offset, tail_offset(query.c_edge))

\* C27 (amended): after the construction and after every advance() the
\* current edge is oriented with its head counterclockwise from the ray:
\* start.vec.ccw(currentEdge.vec) == CLOCKWISE, the unfolded head of the
\* current edge lies strictly counterclockwise from start.vec and its
\* unfolded tail does not, so the ray from the base of start meets the
\* current edge; start.vec.ccw(-prev(currentEdge).vec) == CLOCKWISE holds
\* after the construction.
C27_HeadCounterclockwiseOfRay ==
  Developing =>
    /\ ccw(query.strt.vec, vectors[query.c_edge]) = "CLOCKWISE"
    /\ ccw(query.strt.vec, query.m_current_vert_pos) = "COUNTERCLOCKWISE"
    /\ ccw(query.strt.vec, currentTailPos) # "COUNTERCLOCKWISE"
    /\ answer.op = "DMap" =>
         ccw(query.strt.vec, Neg(vectors[prev_edge(query.c_edge)])) = "CLOCKWISE"

\* A map has been advanced into a face whose third vertex lies further
\* counterclockwise from the ray than the head of the current edge.
C27_Witness ==
  /\ Developing /\ answer.op = "advance"
  /\ ccw(query.strt.vec, vectors[query.c_edge]) = "CLOCKWISE"
  /\ ccw(query.strt.vec, Neg(vectors[prev_edge(query.c_edge)])) = "COUNTERCLOCKWISE"
  /\ ccw(query.strt.vec, currentTailPos) = "CLOCKWISE"

----------------------------------------------------------------------------
(* Properties of updateBeforeCollapse *)

\* make() collapses the half-edge pre'.e in this step.
makeCollapses == status = "making" /\ pre' # pre

\* flip(pre'.e) goes on to collapse the flipped half-edge in this step.
flipCollapses == flipStep /\ last'.op = "flip+collapse"

\* The stores the vectors' handler of beforeCollapse finds and leaves, and
\* the gadget it reads, in a collapse of make().
makeFound == [v |-> vectors, h |-> hidden]

makeLeft == updateBeforeCollapse(faces, vertical, vectors, hidden, pre'.e)

\* The same in a collapse that follows a flip.
flipLeft ==
  updateBeforeCollapse(FlipFaces(faces, pre'.e), vertical,
                       flipHandled.v, flipHandled.h, pre'.e)

\* What the handler has asserted and left: st the stores it found, w those it
\* leaves with the gadget it read.
CollapseRecorded(st, w) ==
  /\ w.ok
  /\ st.v[0 - w.collapse] = Neg(st.v[w.collapse])
  /\ w.h[0 - w.a] # <<>> /\ w.h[w.b] # <<>>
  /\ w.h[0 - w.c] # <<>> /\ w.h[w.d] # <<>>
  /\ \E i \in DOMAIN w.h[w.b] : w.h[w.b][i] = st.v[w.collapse]
  /\ \E i \in DOMAIN w.h[w.d] : w.h[w.d][i] = Neg(st.v[w.collapse])
  /\ w.kind \in {"gadget", "innerAC", "innerBD", "sides", "distinct"}
  /\ last'.kind = w.kind
  /\ status' # "AssertionFailed"

\* C31: in each of the five cases of updateBeforeCollapse the hidden lists
\* of -a, b, -c and d are non-empty after the update, and the connection
\* recorded, the vector of the collapsed half-edge, has been asserted to be
\* the negative of the vector of the opposite half-edge.
C31_CollapseLeavesHidden ==
  [][/\ makeCollapses => \E w \in {makeLeft} : CollapseRecorded(makeFound, w)
     /\ flipCollapses =>
          \E st \in {flipHandled} : \E w \in {flipLeft} : CollapseRecorded(st, w)]_vars

\* A side of the gadget has collapsed to a single edge while the other has
\* not, and the lists of the far side have been filled by the update.
C31_Witness ==
  /\ Collapsed /\ status # "AssertionFailed"
  /\ last.kind = "sides"
  /\ (last.a = 0 - last.d) # (last.b = 0 - last.c)

----------------------------------------------------------------------------
(* Properties of turn *)

\* The half-edge before each half-edge at its vertex, clockwise.
Clockwise == [e \in DOMAIN vertices |-> CHOOSE x \in DOMAIN vertices : vertices[x] = e]

\* The half-edge met after k steps along p from e.
RECURSIVE Back(_, _, _)
Back(p, e, k) == IF k = 0 THEN e ELSE p[Back(p, e, k - 1)]

\* The connections hidden in the first k half-edges along p from e on.
RECURSIVE CrossedBack(_, _, _)
CrossedBack(p, e, k) ==
  IF k = 0 THEN <<>> ELSE CrossedBack(p, e, k - 1) \o hidden[Back(p, e, k - 1)]

\* The steps along p that lead from `from` to `to`, the least of them.
StepsBack(p, from, to) ==
  {k \in 0 .. Cardinality(DOMAIN p) :
     Back(p, from, k) = to /\ \A i \in 0 .. k - 1 : Back(p, from, i) # to}

Turned == status = "collapsed" /\ answer # <<>>

TurnCollected(p, K) ==
  /\ answer.status = "InvalidArgument" <=> K = {}
  /\ answer.status # "InvalidArgument" =>
       /\ answer.status = "ok"
       /\ \A k \in K : answer.connections = CrossedBack(p, answer.from, k)
       /\ answer.from = answer.to => answer.connections = <<>>
       /\ \A i, j \in DOMAIN answer.connections :
            i < j => answer.connections[i] # answer.connections[j]

\* C32: turn(from, to) fails with InvalidArgument when from and to do not
\* start at the same vertex; otherwise it returns cross(from),
\* cross(previousAtVertex(from)), ... up to to, excluded, in this order,
\* nothing when from = to, and no connection twice.
C32_TurnCollectsCrossed ==
  Turned =>
    \E p \in {Clockwise} :
      \E K \in {StepsBack(p, answer.from, answer.to)} : TurnCollected(p, K)

\* A turn over more than one half-edge has crossed two hidden connections,
\* the first of them hidden in from.
C32_Witness ==
  /\ Turned /\ answer.status = "ok" /\ nflips = 1
  /\ Len(answer.connections) = 2
  /\ Len(hidden[answer.from]) = 1
  /\ answer.to \notin {answer.from, Clockwise[answer.from]}

----------------------------------------------------------------------------
(* Properties of a flip that is followed by a collapse *)

\* The gadget a handler has noted in its entry.
EntryGadget(x) == [a |-> x.a, b |-> x.b, c |-> x.c, d |-> x.d]

\* flip(e) has gone from the stores w its afterFlip handlers leave to the
\* collapse of e: cl is what the beforeCollapse handlers leave.
CollapseAfterFlip(w, cl, e) ==
  /\ Len(w.log) = 2 /\ Len(last'.handlers) = 4
  /\ SubSeq(last'.handlers, 1, 2) = w.log
  /\ \A i \in 1 .. 2 :
       /\ last'.handlers[i].signal = "afterFlip"
       /\ EntryGadget(last'.handlers[i]) = EntryGadget(handleFlip(FlipFaces(faces, e), e))
  /\ \A i \in 3 .. 4 :
       /\ last'.handlers[i].signal = "beforeCollapse"
       /\ EntryGadget(last'.handlers[i]) = EntryGadget(Gadget(FlipFaces(faces, e), last'.e))
  /\ faces' = CollapseFaces(FlipFaces(faces, e), last'.e)
  /\ vectors' = Restrict(cl.v, DOMAIN faces')
  /\ hidden' = Restrict(cl.h, DOMAIN faces')

\* C34: a flip goes on to collapse the flipped half-edge exactly when the
\* vector its afterFlip handlers have left on it is vertical; the handlers of
\* beforeCollapse then run after all handlers of afterFlip, on the stores
\* these have left and on the faces the flip has made, and the permutations
\* are changed by the flip and the collapse alone.
C34_CollapseAfterFlipHandlers ==
  [][flipStep =>
       \E w \in {flipHandled} :
         /\ last'.op = "flip+collapse" <=>
              /\ w.ok /\ parallelEdge(vertical, w.v, pre'.e)
              /\ Collapsible(FlipFaces(faces, pre'.e), pre'.e)
         /\ last'.op = "flip+collapse" =>
              \E cl \in {flipLeft} : CollapseAfterFlip(w, cl, pre'.e)]_vars

\* A flip of an edge that was not vertical has made it vertical and has
\* collapsed it.
C34_Witness ==
  /\ status = "collapsed" /\ last.op = "flip+collapse"
  /\ ~parallelEdge(vertical, pre.vectors, pre.e)
  /\ last.flipped = pre.e /\ pre.e \notin DOMAIN faces
  /\ Len(last.handlers) = 4

----------------------------------------------------------------------------
(* Properties of make() *)

\* The edges of the surface (f, v) that are parallel to the vertical.
VerticalEdges(f, v) == {e \in DOMAIN f : e > 0 /\ parallelEdge(vertical, v, e)}

\* C36: every round of the loop of make() that collapses a half-edge takes at
\* least one edge away and leaves fewer vertical edges than it found, so
\* that there are no more collapses than the surface has edges; and the loop
\* ends: make() returns a collapsed surface.
C36_MakeTerminates ==
  /\ [][makeCollapses =>
          /\ parallelEdge(vertical, vectors, pre'.e)
          /\ Cardinality(DOMAIN faces') + 2 <= Cardinality(DOMAIN faces)
          /\ Cardinality(VerticalEdges(faces', vectors'))
               < Cardinality(VerticalEdges(faces, vectors))]_vars
  /\ [](status = "making" =>
          Cardinality(VerticalEdges(faces, vectors)) <= Cardinality(DOMAIN faces) \div 2)
  /\ <>(status = "collapsed")

\* make() has returned after two collapses.
C36_Witness ==
  /\ status = "collapsed" /\ last.op = "collapse"
  /\ Cardinality(DOMAIN faces) + 4 <= Cardinality(DOMAIN initial.faces)
  /\ VerticalEdges(faces, vectors) = {}

----------------------------------------------------------------------------
(* Properties of the orientation of a flip *)

\* The half-edge flip(e) hands to the combinatorial flip.
Oriented(e) == IF perpendicular(vertical, vectors[e]) < 0 THEN 0 - e ELSE e

\* flip(e) taken from the current state leads to the next state: it is
\* admitted and leaves these permutations, vectors and hidden lists.
FlipLeadsThere(e) ==
  /\ flipAdmits(vertical, vectors, faces, e)
  /\ Flippable(faces, e)
  /\ \E o \in {Oriented(e)} :
       FlipCombinatorial(o, FlipFaces(faces, o), FlipVertices(faces, vertices, o))

\* C37 as stated: on a collapsed surface flip(e) and flip(-e) lead to the
\* same permutations, vectors and hidden lists.
C37_FlipOfEitherOrientation ==
  [][flipStep => FlipLeadsThere(0 - pre'.arg)]_vars

\* C37 (amended): on a collapsed surface flip(e) and flip(-e) lead to the
\* same permutations, vectors and hidden lists whenever both e and -e are
\* large, since both calls hand the same half-edge, the one with non-negative
\* perpendicular component, to the combinatorial flip; when -e is not large,
\* flip(-e) throws InvalidArgument and leaves the surface as it is.
C37_FlipOfEitherLargeOrientation ==
  [][flipStep =>
       /\ Oriented(pre'.arg) = pre'.e /\ perpendicular(vertical, vectors[pre'.e]) > 0
       /\ FlipLeadsThere(pre'.arg)
       /\ large(vertical, vectors, 0 - pre'.arg) =>
            /\ Oriented(0 - pre'.arg) = pre'.e
            /\ FlipLeadsThere(0 - pre'.arg)
       /\ ~large(vertical, vectors, 0 - pre'.arg) =>
            ~flipAdmits(vertical, vectors, faces, 0 - pre'.arg)]_vars

\* A flip has been made at a half-edge whose negative was large as well, and
\* has been turned to that negative before the combinatorial flip.
C37_Witness ==
  /\ status = "collapsed" /\ last.op \in {"flip", "flip+collapse"}
  /\ large(vertical, pre.vectors, pre.arg) /\ large(vertical, pre.vectors, 0 - pre.arg)
  /\ pre.e = 0 - pre.arg

----------------------------------------------------------------------------
(* Properties of SweepNextLeft *)

LeftReturned == answer.fn = "SweepNextLeft" /\ answer.pc = "return"

\* The positions SweepNextLeft compares: the initial vertex position, and the
\* positions visited that are within len2.
LeftPositions ==
  {answer.visited[1]} \cup
    {answer.visited[i] : i \in {j \in 2 .. Len(answer.visited) :
                                   norm(answer.visited[j]) < answer.len2}}

\* p is strictly clockwise of q and not aligned with it.
StrictlyClockwise(p, q) == CCW(p, q) /\ ~aligned(p, q)

\* C33: when SweepNextLeft returns, end_Dir is the direction from one of the
\* positions compared, and none of the initial vertex position and the
\* positions visited within len2 is strictly clockwise of that position.
C33_EndIsClosestToStart ==
  LeftReturned =>
    /\ answer.end_pos \in LeftPositions
    /\ answer.end_Dir.vec = Neg(answer.end_pos)
    /\ \A p \in LeftPositions : ~StrictlyClockwise(p, answer.end_pos)

C33_Witness ==
  /\ LeftReturned
  /\ Len(answer.visited) >= 3
  /\ answer.end_pos # answer.visited[1]
  /\ \E p \in LeftPositions :
       p # answer.visited[1] /\ StrictlyClockwise(answer.end_pos, p)

\* The bound of the loop of SweepNextLeft.
LeftBound == answer.len2 + answer.threshold

\* C35: SweepNextLeft advances at least once, every step of its loop is an
\* advance() after which it goes on exactly when the squared norm of the face
\* offset is at most len2 + threshold, and it returns in the end, with the
\* face offset beyond that bound.
C35_SweepNextLeftTerminates ==
  /\ [][answer.fn = "SweepNextLeft" /\ answer.pc = "do" =>
          /\ query' = advance(query)
          /\ answer'.count = answer.count + 1
          /\ answer'.pc = "do" <=> norm(query'.cf_offset) <= LeftBound
          /\ answer'.pc = "return" <=> norm(query'.cf_offset) > LeftBound]_vars
  /\ [](LeftReturned => answer.count >= 1 /\ norm(query.cf_offset) > LeftBound)
  /\ <>(answer.fn = "SweepNextLeft" => answer.pc = "return")

C35_Witness ==
  /\ LeftReturned
  /\ answer.count >= 3
  /\ norm(query.cf_offset) > LeftBound
  /\ answer.threshold > 0

----------------------------------------------------------------------------
(* Properties of NewFollowDir *)

FollowReturned == answer.fn = "NewFollowDir" /\ answer.pc = "return"

\* A vertex met on the ray that NewFollowDir answers with: relevant and at
\* squared distance below len2.
Answers(d) == relevant(VertexOf(d)) /\ norm(d.vec) < answer.len2

\* C38: NewFollowDir returns true only with end a relevant vertex that lies
\* exactly on the ray from start at squared distance below len2, the first
\* such vertex met along the ray; it returns false with end untouched, the
\* squared norm of the face offset at least len2 and no such vertex met.
C38_NewFollowDirFindsFirstVertex ==
  FollowReturned =>
    /\ \A i \in 1 .. Len(answer.met) :
         /\ aligned(Neg(answer.met[i].vec), answer.strt.vec)
         /\ Answers(answer.met[i]) <=>
              answer.ret = <<TRUE>> /\ i = Len(answer.met)
         /\ \A j \in 1 .. i - 1 : norm(answer.met[j].vec) < norm(answer.met[i].vec)
    /\ answer.ret = <<TRUE>> =>
         /\ answer.met # <<>>
         /\ answer.end_Dir = answer.met[Len(answer.met)]
         /\ answer.end_Dir = query.m_vertex_to_hit
         /\ query.m_going_to_hit
         /\ norm(query.cf_offset) < answer.len2
    /\ answer.ret = <<FALSE>> =>
         /\ answer.end_Dir = NoDir
         /\ norm(query.cf_offset) >= answer.len2

C38_Witness ==
  /\ FollowReturned
  /\ answer.ret = <<TRUE>>
  /\ Len(answer.met) >= 2
  /\ answer.count >= 2

----------------------------------------------------------------------------
(* Properties of SweepNew *)

\* The directions appended to pending_vec in a round, in order.
Appendings == {<<>>, <<"old">>, <<"new">>, <<"old", "new">>}

\* SweepNew takes up the result of SweepNextLeft.
resumeStep == run.pc = "called" /\ run'.pc # "called"

\* C39: pending_vec never holds more than its two elements and is never
\* written beyond them; a round appends at most the old direction and then
\* the new one, the old one only if the round before has not appended it as
\* its new direction; and n_pending is 0 whenever a round begins.
C39_PendingWithinCapacity ==
  /\ [](/\ run.n_pending \in 0 .. 2
        /\ run.pc # "undefined"
        /\ run.appended \in Appendings
        /\ run.pc \in {"angle", "for"} => run.n_pending = Len(run.appended)
        /\ run.pc \in {"while", "called", "return"} => run.n_pending = 0)
  /\ [][resumeStep =>
          (run'.appended = <<"old">> =>
             /\ ~run.investigated_last
             /\ \A i \in 1 .. Len(run.appended) : run.appended[i] # "new")]_vars

C39_Witness ==
  /\ run.pc = "for"
  /\ run.n_pending = 2
  /\ run.i = 2
  /\ run.pending_vec[0] # run.pending_vec[1]
=========================================
